---- MODULE Spec2Model ----
(***************************************************************************)
(* devback: concurrent Backup calls on one (backupRoot, repoKey).          *)
(*                                                                         *)
(* Each call runs Backup (internal/usecase/run.go): ensureBackupDirs,      *)
(* acquireBackupLock (the lock adapter's AcquireLock, one action per       *)
(* filesystem operation), handleBackupFlow (reservation, markers, copy,    *)
(* finalization, rotation, deferred cleanup) and the deferred release.     *)
(* The filesystem is shared; a call may crash between any two steps and    *)
(* its cancellation token may fire at any time.                            *)
(*                                                                         *)
(* Modelling conventions:                                                  *)
(*  - os.RemoveAll is taken to succeed (its result is discarded by every   *)
(*    caller modelled here); writes and directory creations may fail.      *)
(*  - a directory has an identity (its creator), so that a path removed    *)
(*    and created again is a different directory; a snapshot directory     *)
(*    also records the reservations that returned it (claimants).          *)
(*  - in Spec, SpecSolo and SpecRotation the runs are shorter than         *)
(*    lockRefreshInterval (one hour): the refresh goroutine of             *)
(*    startLockRefresh does not tick there; SpecRefresh lets it tick.      *)
(*  - <dateDir> directories are known by their path only.                  *)
(*                                                                         *)
(* Specifications:                                                         *)
(*  - Spec: two concurrent calls, from the situations of Scenarios.        *)
(*  - SpecSolo: one call on its own, including dry runs and rotation that  *)
(*    meets a listing error or a panic.                                    *)
(*  - SpecRotation: rotateRepo, removeSnapshot and scanBackups applied to  *)
(*    every repository directory of RotationDisks under every              *)
(*    configuration of RotationConfigs, with no call in progress.          *)
(*  - SpecLock, SpecLockFair: one AcquireLock that finds a lock directory  *)
(*    left behind, under every lock file of LeftInfos and every system of  *)
(*    Systems; SpecLockFair lets the acquisition run to its end.           *)
(*  - SpecRefresh: calls that hold the lock for hours, with the refresh    *)
(*    goroutine of startLockRefresh rewriting the lock file.               *)
(*  - SpecExit: runMain mapping the error of a command to an exit status.  *)
(*  - SpecHook: the post-commit, post-merge and post-rewrite hooks, with   *)
(*    the debounce stamp of post-rewrite.                                  *)
(*  - SpecKey: deriveRepoKey on character strings, derived repeatedly      *)
(*    while time passes and the backup root changes.                       *)
(*  - SpecTakeover: two calls that may find a lock directory left by a     *)
(*    dead process, with the backup flow taken as one step.                *)
(*  - SpecSkip: Phases B-D, readDevbackIgnore and shouldSkip on character  *)
(*    strings, for copyRepoSnapshot and planRepoSnapshot.                  *)
(*  - SpecCopy, SpecCopyFair: the inside of one copyRepoSnapshot, from     *)
(*    .partial to .done, with the dispatcher and the workers of Phase E    *)
(*    as separate goroutines; SpecCopyFair lets every goroutine run.       *)
(***************************************************************************)
EXTENDS Integers, FiniteSets, Sequences, TLC

(* ----------------------------- bounds ---------------------------------- *)
MaxNow == 2            \* distinct values time.Now() can take in handleBackupFlow
NumOld == 2            \* .done snapshots already on disk at start
MaxCrashes == 1        \* calls whose process is killed

(* ------------------------- program constants --------------------------- *)
MaxAttempts == 100     \* for i := 0; i < 100; i++ in createUniqueSnapshotDir

\* the two concurrent Backup calls on the same (backupRoot, repoKey); a call
\* runs in a process of its own and is named by its pid
Procs == {"A", "B"}
NoProc == "none"
Nows == 1 .. MaxNow

\* A snapshot directory name: the time.Now() value it was derived from (n = 0
\* for snapshots of an earlier day) and the collision suffix i (0 = no suffix).
Names == [n : 0 .. MaxNow, i : 0 .. (MaxAttempts - 1)]

\* dateDir := now.Format("2006-01-02"): distinct Now values fall on distinct
\* days; the snapshots found at start (n = 0) are of an earlier day.
DateOf(n) == n

VARIABLES
    pc,          \* position of each call
    ctxDone,     \* the call's cancellation token has fired
    ret,         \* error category returned by Backup ("none" while running)
    lock,        \* the lock directory <repoDir>/.backup.lock
    dateDirs,    \* existing <repoDir>/<dateDir> directories
    snaps,       \* existing <dateDir>/<timeDir> directories, by name
    now,         \* handleBackupFlow: now
    attempt,     \* createUniqueSnapshotDir: i
    target,      \* handleBackupFlow: targetPath (a name) once reserved
    partialSuccess, \* result.PartialSuccess
    cfg,         \* configuration of the run
    repoDir,     \* <backupDir>/<repoKey> exists
    sys,         \* the operating system as the lock adapter queries it
    refresh,     \* per call: the lock-refresh goroutine of startLockRefresh
    hook,        \* the git hook commands: clock, debounce stamp, last invocation
    cli,         \* the process: the error its command returned, its exit status
    key,         \* deriveRepoKey: its inputs, the surroundings, the keys derived
    sel,         \* Phases B-D: .devbackignore, the candidates, the paths kept
    copy,        \* copyRepoSnapshot: the snapshot, the Phase E goroutines
    hist         \* per call: observations used by the properties

vars == <<pc, ctxDone, ret, lock, dateDirs, snaps, now, attempt,
          target, partialSuccess, cfg, repoDir, sys, refresh, hook, cli, key,
          sel, copy, hist>>

\* what a Backup call leaves alone: the hook commands, the process exit, the
\* repository key, and the inside of copyRepoSnapshot, which the calls take
\* as one step and the specifications of the copy take apart
side == <<hook, cli, key, sel, copy>>

NoDir == [exists |-> FALSE]
NoInfo == [present |-> FALSE]
NoTarget == [n |-> -1, i |-> -1]
NoRefresh == [st |-> "off", stop |-> FALSE, info |-> NoInfo, dir |-> "none"]
NilError == << >>

\* the side variables of a run in which no hook command runs, no command has
\* returned to runMain and no key is derived
NoRun == [hook |-> "none", rebase |-> FALSE, eligible |-> FALSE, called |-> FALSE,
          err |-> NilError, exit |-> -1, debounce |-> FALSE, at |-> 0,
          readable |-> FALSE, wrote |-> FALSE]
NoStamp == [kind |-> "missing", ts |-> 0]
NoHook == [clock |-> 0, stamp |-> NoStamp, snapshots |-> 0, runs |-> 0,
           last |-> NoRun, prev |-> [completed |-> FALSE, wrote |-> FALSE, at |-> 0]]
NoExit == [err |-> NilError, returned |-> FALSE, code |-> -1]
NoKey == [derived |-> << >>]
NoSel == [st |-> "off"]
NoCopy == [st |-> "off"]
NoInside == sel = NoSel /\ copy = NoCopy
NoSide == hook = NoHook /\ cli = NoExit /\ key = NoKey /\ NoInside

(* ----------------------- snapshot directories -------------------------- *)
SnapBytes == 1073741824   \* bytes of regular files one copy writes (1 GiB)

\* a <timeDir> directory as CreateDirExclusive leaves it
NewSnap(p) == [owner |-> p, claimants |-> {}, reserve |-> FALSE, partial |-> FALSE,
               done |-> FALSE, ageH |-> 0, bytes |-> 0]

\* a directory creation that accepts an existing path, as os.MkdirAll does
CreateDirExclusive_MkdirAll(exists) == "created"

\* FileSystem.CreateDirExclusive = os.Mkdir: fails with EEXIST on an existing path
CreateDirExclusive(exists) == IF exists THEN "EEXIST" ELSE "created"

Exists(nm) == nm \in DOMAIN snaps

\* the directory at path nm is the one call p created
Owns(p, nm) == Exists(nm) /\ snaps[nm].owner = p

\* os.RemoveAll(<timeDir>)
RemoveTimeDir(S, nm) == [x \in (DOMAIN S) \ {nm} |-> S[x]]

\* os.RemoveAll(<dateDir>): the directory and every <timeDir> in it
RemoveDateDir(S, d) == [x \in {y \in DOMAIN S : DateOf(y.n) # d} |-> S[x]]

\* ReadDir(<dateDir>) returns no entry
DateDirEmpty(S, d) == \A y \in DOMAIN S : DateOf(y.n) # d

(* --------------------------- rotation rules ---------------------------- *)
\* order of sort.Slice(snaps, TimeDir <): <dateDir>/<base>[-NN] as strings
Key(nm) == nm.n * MaxAttempts + nm.i

RECURSIVE SortNames(_)
SortNames(S) ==
    IF S = {} THEN <<>>
    ELSE LET m == CHOOSE x \in S : \A y \in S : Key(x) <= Key(y)
         IN <<m>> \o SortNames(S \ {m})

\* a listing that takes every <timeDir> directory, finished or not
listSnapshots_AllDirs(S) == SortNames(DOMAIN S)

\* listSnapshots: the <timeDir> directories holding .done, ascending
listSnapshots(S) == SortNames({nm \in DOMAIN S : S[nm].done})

\* dirSizeKB: (total + 1023) / 1024
dirSizeKB(bytes) == (bytes + 1023) \div 1024

\* applyKeepDays: alive[] after the age rule
applyKeepDays(S, c, list, alive) ==
    IF c.KeepDays <= 0 THEN alive
    ELSE [k \in 1 .. Len(list) |->
            alive[k] /\ ~(S[list[k]].ageH > c.KeepDays * 24)]

RECURSIVE KillOldest(_, _, _)
KillOldest(alive, k, toRemove) ==
    IF k > Len(alive) \/ toRemove <= 0 THEN alive
    ELSE IF ~alive[k] THEN KillOldest(alive, k + 1, toRemove)
    ELSE KillOldest([alive EXCEPT ![k] = FALSE], k + 1, toRemove - 1)

\* a count rule that walks the list from its newest end
applyKeepCount_NewestFirst(c, alive) ==
    LET live == Cardinality({k \in 1 .. Len(alive) : alive[k]}) IN
    IF c.KeepCount <= 0 \/ live <= c.KeepCount THEN alive
    ELSE [j \in 1 .. Len(alive) |->
             alive[j] /\ Cardinality({m \in j + 1 .. Len(alive) : alive[m]})
                            >= live - c.KeepCount]

\* a count rule that stops one snapshot short
applyKeepCount_KeepsOneMore(c, alive) ==
    LET live == Cardinality({k \in 1 .. Len(alive) : alive[k]}) IN
    IF c.KeepCount <= 0 \/ live <= c.KeepCount + 1 THEN alive
    ELSE KillOldest(alive, 1, live - c.KeepCount - 1)

\* applyKeepCount: alive[] after the count rule
applyKeepCount(c, alive) ==
    LET live == Cardinality({k \in 1 .. Len(alive) : alive[k]}) IN
    IF c.KeepCount <= 0 \/ live <= c.KeepCount THEN alive
    ELSE KillOldest(alive, 1, live - c.KeepCount)

RECURSIVE SumAlive(_, _, _)
SumAlive(sizes, alive, k) ==
    IF k > Len(sizes) THEN 0
    ELSE (IF alive[k] THEN sizes[k] ELSE 0) + SumAlive(sizes, alive, k + 1)

RECURSIVE KillOverLimit(_, _, _, _, _)
KillOverLimit(alive, sizes, k, totalKB, kbLimit) ==
    IF k > Len(alive) \/ ~(totalKB > kbLimit) THEN alive
    ELSE IF ~alive[k] THEN KillOverLimit(alive, sizes, k + 1, totalKB, kbLimit)
    ELSE KillOverLimit([alive EXCEPT ![k] = FALSE], sizes, k + 1,
                       totalKB - sizes[k], kbLimit)

\* a limit that leaves the margin out
KbLimit_NoMargin(c) == c.MaxTotalGBPerRepo * 1024 * 1024

\* kbLimit of applySizeLimit
KbLimit(c) == c.MaxTotalGBPerRepo * 1024 * 1024 + c.SizeMarginMB * 1024

\* applySizeLimit: alive[] after the size rule
applySizeLimit(S, c, list, alive) ==
    IF c.MaxTotalGBPerRepo <= 0 \/ c.NoSize THEN alive
    ELSE LET sizes == [k \in 1 .. Len(list) |->
                          IF alive[k] THEN dirSizeKB(S[list[k]].bytes) ELSE 0]
         IN KillOverLimit(alive, sizes, 1, SumAlive(sizes, alive, 1), KbLimit(c))

\* rotateRepo: the snapshots the three rules mark dead, in order age, count, size
RotationKills(S, c) ==
    LET list == listSnapshots(S)
        a0 == [k \in 1 .. Len(list) |-> TRUE]
        a1 == applyKeepDays(S, c, list, a0)
        a2 == applyKeepCount(c, a1)
        a3 == applySizeLimit(S, c, list, a2)
    IN {list[k] : k \in {j \in 1 .. Len(list) : ~a3[j]}}

RECURSIVE RemoveAllOf(_, _)
RemoveAllOf(S, K) ==
    IF K = {} THEN S
    ELSE LET nm == CHOOSE x \in K : TRUE IN RemoveAllOf(RemoveTimeDir(S, nm), K \ {nm})

\* removeSnapshot for every killed snapshot: the <timeDir> trees are removed,
\* and a <dateDir> that ReadDir then finds empty is removed too
SnapsAfterRemoval(S, K) == RemoveAllOf(S, K)
DateDirsAfterRemoval(S, D, K) ==
    D \ {d \in {DateOf(nm.n) : nm \in K} : DateDirEmpty(RemoveAllOf(S, K), d)}

\* the on-disk state rotation works on
Disk(S, D) == [snaps |-> S, dateDirs |-> D]

\* a removal that takes the whole <dateDir>
removeSnapshot_WholeDay(disk, nm) ==
    Disk(RemoveDateDir(disk.snaps, DateOf(nm.n)), disk.dateDirs \ {DateOf(nm.n)})

\* removeSnapshot: RemoveAll(s.TimeDir), then ReadDir(s.DateDir) and
\* RemoveAll(s.DateDir) when it lists no entry
removeSnapshot(disk, nm) ==
    LET S1 == RemoveTimeDir(disk.snaps, nm) IN
    Disk(S1, IF DateDirEmpty(S1, DateOf(nm.n))
             THEN disk.dateDirs \ {DateOf(nm.n)} ELSE disk.dateDirs)

RECURSIVE RemoveEach(_, _)
RemoveEach(disk, order) ==
    IF order = <<>> THEN disk
    ELSE RemoveEach(removeSnapshot(disk, Head(order)), Tail(order))

\* what can go wrong inside rotateRepo: listSnapshots returns an error; a
\* panic after the age rule (recovered by the caller)
Faults == {"none", "list", "panic"}

NoKills == [age |-> {}, count |-> {}, size |-> {}]

\* rotateRepo: the snapshots each rule marks dead (alive[i] = false)
KilledBy(S, c, fault) ==
    LET list == listSnapshots(S)
        a0 == [k \in 1 .. Len(list) |-> TRUE]
        a1 == applyKeepDays(S, c, list, a0)
        a2 == applyKeepCount(c, a1)
        a3 == applySizeLimit(S, c, list, a2)
        dead(a, b) == {list[k] : k \in {j \in 1 .. Len(list) : a[j] /\ ~b[j]}}
    IN IF fault = "list" THEN NoKills
       ELSE IF fault = "panic" THEN [NoKills EXCEPT !.age = dead(a0, a1)]
       ELSE [age |-> dead(a0, a1), count |-> dead(a1, a2), size |-> dead(a2, a3)]

AllKilled(kb) == kb.age \cup kb.count \cup kb.size

\* the removeSnapshot calls of the rules, in the order they are made: each
\* rule walks the list in ascending order
RemovalOrder(S, kb) ==
    LET list == listSnapshots(S)
        of(K) == SelectSeq(list, LAMBDA nm : nm \in K)
    IN of(kb.age) \o of(kb.count) \o of(kb.size)

\* rules that remove whatever dryRun says
Removals_Always(order, dryRun) == order

\* if !dryRun { removeSnapshot(...) }
Removals(order, dryRun) == IF dryRun THEN <<>> ELSE order

RECURSIVE SizeKB(_, _)
\* the sum of dirSizeKB over the directories K of S
SizeKB(S, K) ==
    IF K = {} THEN 0
    ELSE LET nm == CHOOSE x \in K : TRUE
         IN dirSizeKB(S[nm].bytes) + SizeKB(S, K \ {nm})

\* scanBackups: SnapshotCount and TotalSizeKB of a repository directory
scanBackups(S) ==
    LET list == listSnapshots(S) IN
    [SnapshotCount |-> Len(list),
     TotalSizeKB |-> SizeKB(S, {list[k] : k \in 1 .. Len(list)})]

\* rotateRepo: the disk it leaves
rotateRepo(disk, c, dryRun, fault) ==
    RemoveEach(disk, Removals(RemovalOrder(disk.snaps,
                                           KilledBy(disk.snaps, c, fault)), dryRun))

(* ------------------------------ lock ----------------------------------- *)
DeadPid == "dead"      \* pid of a process that no longer exists
ForeignPid == "foreign" \* pid recorded by a process that is not one of the calls
LocalHost == "local"
MaxAgeH == 24          \* AcquireLock: maxAge = 24*time.Hour, in hours

\* the operating system of a run whose queries all succeed and where no
\* process has the foreign pid
DefaultSys == [goos |-> "linux", hostnameOk |-> TRUE, foreign |-> "dead", query |-> TRUE]

\* a lock directory as os.Mkdir leaves it: no info file yet
NewLockDir(p) == [exists |-> TRUE, owner |-> p, info |-> NoInfo]

\* isProcessRunning(pid): the calls are processes while they run or their
\* refresh goroutine does; the foreign pid belongs to a process unless
\* sys.foreign = "dead"
isProcessRunning(pid) ==
    IF pid = ForeignPid THEN sys.foreign # "dead"
    ELSE /\ pid \in Procs
         /\ pc[pid] \notin {"idle", "done", "crashed"} \/ refresh[pid].st # "off"

\* the start instant of the process that has the pid now: the recorder's own,
\* or another one when the pid was reused
StartOf(pid) == IF pid = ForeignPid /\ sys.foreign = "reused" THEN "later" ELSE pid

\* getProcessStartTicks(pid): <<ticks, ok>>; /proc/<pid>/stat, on linux only
getProcessStartTicks(pid) ==
    IF sys.goos = "linux" /\ isProcessRunning(pid) /\ sys.query
    THEN <<StartOf(pid), TRUE>> ELSE <<"", FALSE>>

\* getProcessStartID(pid): <<id, ok>>; from the ticks on linux, from the
\* kernel's process table on darwin, not available elsewhere
getProcessStartID(pid) ==
    IF sys.goos = "linux" THEN getProcessStartTicks(pid)
    ELSE IF sys.goos = "darwin" /\ isProcessRunning(pid) /\ sys.query
         THEN <<StartOf(pid), TRUE>>
    ELSE <<"", FALSE>>

\* os.Hostname(): <<hostname, ok>>
Hostname == IF sys.hostnameOk THEN <<LocalHost, TRUE>> ELSE <<"", FALSE>>

\* LockInfo as createLockFile fills it for call p: pid, StartTime = now (age
\* 0), the hostname, the start ticks and start id of the process where the
\* system gives them
InfoOf(p) == [present |-> TRUE, pid |-> p, age |-> 0, host |-> Hostname[1],
              startId |-> getProcessStartID(p)[1], ticks |-> getProcessStartTicks(p)[1]]

\* a validateLockFile without the maxAge test
validateLockFile_IgnoresAge ==
    IF ~lock.exists \/ ~lock.info.present THEN FALSE
    ELSE LET info == lock.info IN
         IF info.host # "" /\ Hostname[2] /\ Hostname[1] # info.host THEN TRUE
         ELSE IF info.startId # "" /\ getProcessStartID(info.pid)[2]
              THEN getProcessStartID(info.pid)[1] = info.startId
         ELSE IF info.ticks # "" /\ getProcessStartTicks(info.pid)[2]
              THEN getProcessStartTicks(info.pid)[1] = info.ticks
         ELSE isProcessRunning(info.pid)

\* a validateLockFile without the hostname test
validateLockFile_NoHostRule ==
    IF ~lock.exists \/ ~lock.info.present THEN FALSE
    ELSE LET info == lock.info IN
         IF info.age > MaxAgeH THEN FALSE
         ELSE IF info.startId # "" /\ getProcessStartID(info.pid)[2]
              THEN getProcessStartID(info.pid)[1] = info.startId
         ELSE IF info.ticks # "" /\ getProcessStartTicks(info.pid)[2]
              THEN getProcessStartTicks(info.pid)[1] = info.ticks
         ELSE isProcessRunning(info.pid)

\* a validateLockFile that asks only whether a process has the pid
validateLockFile_LivenessOnly ==
    IF ~lock.exists \/ ~lock.info.present THEN FALSE
    ELSE LET info == lock.info IN
         IF info.age > MaxAgeH THEN FALSE
         ELSE IF info.host # "" /\ Hostname[2] /\ Hostname[1] # info.host THEN TRUE
         ELSE isProcessRunning(info.pid)

\* validateLockFile(lockFile, 24h) on the current lock directory
validateLockFile ==
    IF ~lock.exists \/ ~lock.info.present THEN FALSE      \* readLockInfo fails
    ELSE LET info == lock.info IN
         IF info.age > MaxAgeH THEN FALSE
         ELSE IF info.host # "" /\ Hostname[2] /\ Hostname[1] # info.host THEN TRUE
         ELSE IF info.startId # "" /\ getProcessStartID(info.pid)[2]
              THEN getProcessStartID(info.pid)[1] = info.startId
         ELSE IF info.ticks # "" /\ getProcessStartTicks(info.pid)[2]
              THEN getProcessStartTicks(info.pid)[1] = info.ticks
         ELSE isProcessRunning(info.pid)

\* the error texts AcquireLock returns, word by word
ErrHeld == <<"lock", "is", "held", "by", "another", "active", "process">>
ErrAfterCleanup == <<"failed", "to", "create", "lock", "after", "cleanup:",
                     "mkdir", ".backup.lock:", "file", "exists">>
ErrWriteInfo == <<"open", ".backup.lock/info:", "no", "such", "file", "or", "directory">>

\* strings.Contains(s, substr)
Contains(s, substr) ==
    \E k \in 1 .. (Len(s) - Len(substr) + 1) :
        SubSeq(s, k, k + Len(substr) - 1) = substr

\* strings.Contains(err.Error(), "lock is held")
ContainsLockIsHeld(msg) == Contains(msg, <<"lock", "is", "held">>)

\* acquireBackupLock: the category for a failed AcquireLock
ClassifyAcquireError(msg) == IF ContainsLockIsHeld(msg) THEN "LockBusy" ELSE "Critical"

Running(p) == pc[p] \notin {"idle", "done", "crashed"}

\* Backup returns err without having acquired the lock (no deferred release)
ReturnNoLock(p, category) ==
    /\ pc' = [pc EXCEPT ![p] = "done"]
    /\ ret' = [ret EXCEPT ![p] = category]
    /\ ctxDone' = [ctxDone EXCEPT ![p] = FALSE]

\* ensureBackupDirs that also reserves the snapshot directory, before the lock
\* is acquired
EnsureBackupDirs_Reserving(p) ==
    /\ Running(p) /\ pc[p] = "start" /\ ~cfg.DryRun
    /\ repoDir' = TRUE
    /\ \E ok \in BOOLEAN :
         IF ok
         THEN /\ pc' = [pc EXCEPT ![p] = "acq_mkdir"]
              /\ snaps' = IF Exists([n |-> 1, i |-> 0]) THEN snaps
                          ELSE ([n |-> 1, i |-> 0] :>
                                  [NewSnap(p) EXCEPT !.reserve = TRUE]) @@ snaps
              /\ dateDirs' = dateDirs \cup {DateOf(1)}
              /\ hist' = [hist EXCEPT ![p].created = ~Exists([n |-> 1, i |-> 0])]
              /\ UNCHANGED <<ret, ctxDone>>
         ELSE /\ ReturnNoLock(p, "Critical")
              /\ UNCHANGED <<snaps, dateDirs, hist>>
    /\ UNCHANGED <<lock, now, attempt, target, partialSuccess, cfg, sys, side, refresh>>

\* a Backup that creates its directories before it tests cfg.DryRun
EnsureBackupDirs_BeforeDryRunTest(p) ==
    /\ Running(p) /\ pc[p] = "start" /\ ~repoDir
    /\ repoDir' = TRUE
    /\ UNCHANGED <<pc, ctxDone, ret, lock, dateDirs, snaps, now, attempt,
                   target, partialSuccess, cfg, sys, side, refresh, hist>>

\* Backup up to ensureBackupDirs: CreateDir(backupDir), CreateDir(repoDir)
EnsureBackupDirs(p) ==
    /\ Running(p) /\ pc[p] = "start" /\ ~cfg.DryRun
    /\ \E ok \in BOOLEAN :
         IF ok THEN /\ pc' = [pc EXCEPT ![p] = "acq_mkdir"]
                    /\ repoDir' = TRUE
                    /\ UNCHANGED <<ret, ctxDone>>
         ELSE ReturnNoLock(p, "Critical") /\ UNCHANGED repoDir
    /\ UNCHANGED <<lock, dateDirs, snaps, now, attempt,
                   target, partialSuccess, cfg, sys, side, refresh, hist>>

\* AcquireLock: os.Mkdir(lockDir)
AcquireMkdir(p) ==
    /\ Running(p) /\ pc[p] = "acq_mkdir"
    /\ IF ~lock.exists
       THEN /\ lock' = NewLockDir(p)
            /\ pc' = [pc EXCEPT ![p] = "acq_write"]
       ELSE /\ pc' = [pc EXCEPT ![p] = "acq_validate"]
            /\ UNCHANGED lock
    /\ UNCHANGED <<ctxDone, ret, dateDirs, snaps, now, attempt,
                   target, partialSuccess, cfg, repoDir, sys, side, refresh, hist>>

\* AcquireLock: createLockFile(lockDir/info) and return; on success Backup
\* defers releaseLock and starts the refresh goroutine (startLockRefresh)
AcquireWriteInfo(p) ==
    /\ Running(p) /\ pc[p] = "acq_write"
    /\ IF lock.exists
       THEN /\ lock' = [lock EXCEPT !.info = InfoOf(p)]
            /\ pc' = [pc EXCEPT ![p] = "flow"]
            /\ refresh' = [refresh EXCEPT ![p] = [NoRefresh EXCEPT !.st = "wait"]]
            /\ hist' = [hist EXCEPT ![p].found = "none", ![p].acquired = TRUE]
            /\ UNCHANGED <<ret, ctxDone>>
       ELSE /\ ReturnNoLock(p, ClassifyAcquireError(ErrWriteInfo))
            /\ hist' = [hist EXCEPT ![p].lostRace = TRUE, ![p].found = "none"]
            /\ UNCHANGED <<lock, refresh>>
    /\ UNCHANGED <<dateDirs, snaps, now, attempt, target, partialSuccess, cfg, repoDir, sys, side>>

\* the directory validateLockFile looks at, which AcquireLock remembers as
\* isValid until it returns: gone; left behind by an earlier
\* process; made by a call that has not written its info file yet; made by a
\* call that crashed before it wrote the file; one whose info file is being
\* rewritten; one with the info file of a call
Found ==
    IF ~lock.exists THEN "gone"
    ELSE IF lock.owner = NoProc THEN "left"
    ELSE IF lock.info.present THEN "written"
    ELSE IF pc[lock.owner] = "acq_write" THEN "unwritten"
    ELSE IF pc[lock.owner] = "crashed" THEN "orphan"
    ELSE "rewriting"

\* AcquireLock: the directory exists; validateLockFile(lockDir/info)
AcquireValidate(p) ==
    /\ Running(p) /\ pc[p] = "acq_validate"
    /\ IF validateLockFile
       THEN /\ ReturnNoLock(p, ClassifyAcquireError(ErrHeld))
            /\ hist' = [hist EXCEPT ![p].busy = TRUE]
       ELSE /\ pc' = [pc EXCEPT ![p] = "acq_remove"]
            /\ hist' = [hist EXCEPT ![p].found = Found]
            /\ UNCHANGED <<ret, ctxDone>>
    /\ UNCHANGED <<lock, dateDirs, snaps, now, attempt,
                   target, partialSuccess, cfg, repoDir, sys, side, refresh>>

\* AcquireLock: os.RemoveAll(lockDir) of the lock found invalid
AcquireRemoveStale(p) ==
    /\ Running(p) /\ pc[p] = "acq_remove"
    /\ lock' = NoDir
    /\ pc' = [pc EXCEPT ![p] = "acq_mkdir2"]
    /\ UNCHANGED <<ctxDone, ret, dateDirs, snaps, now, attempt,
                   target, partialSuccess, cfg, repoDir, sys, side, refresh, hist>>

\* AcquireLock: os.Mkdir(lockDir) after the cleanup
AcquireMkdirAgain(p) ==
    /\ Running(p) /\ pc[p] = "acq_mkdir2"
    /\ IF ~lock.exists
       THEN /\ lock' = NewLockDir(p)
            /\ pc' = [pc EXCEPT ![p] = "acq_write"]
            /\ UNCHANGED <<ret, ctxDone, hist>>
       ELSE /\ ReturnNoLock(p, ClassifyAcquireError(ErrAfterCleanup))
            /\ hist' = [hist EXCEPT ![p].lostRace = TRUE, ![p].found = "none"]
            /\ UNCHANGED lock
    /\ UNCHANGED <<dateDirs, snaps, now, attempt, target, partialSuccess, cfg, repoDir, sys, side, refresh>>

\* stopRefresh: cancel() of the refresh context. A goroutine waiting in its
\* select returns; one that is inside RefreshLock, or whose tick is already
\* pending, is not waited for
stopRefresh(r) == IF r.st \in {"off", "wait"} THEN NoRefresh ELSE [r EXCEPT !.stop = TRUE]

\* a release that leaves the lock directory when the call was interrupted
ReleaseLock_NotWhenInterrupted(p) ==
    /\ Running(p) /\ pc[p] = "release"
    /\ lock' = IF ret[p] = "Interrupted" THEN lock ELSE NoDir
    /\ pc' = [pc EXCEPT ![p] = "done"]
    /\ ctxDone' = [ctxDone EXCEPT ![p] = FALSE]
    /\ now' = [now EXCEPT ![p] = 0]
    /\ attempt' = [attempt EXCEPT ![p] = 0]
    /\ refresh' = [refresh EXCEPT ![p] = stopRefresh(refresh[p])]
    /\ UNCHANGED <<ret, dateDirs, snaps, target, partialSuccess, cfg, repoDir, sys, side, hist>>

\* Backup's deferred stopRefresh and releaseLock: ReleaseLock = os.RemoveAll(lockPath); Backup
\* returns what handleBackupFlow returned and its locals are gone
ReleaseLock(p) ==
    /\ Running(p) /\ pc[p] = "release"
    /\ lock' = NoDir
    /\ pc' = [pc EXCEPT ![p] = "done"]
    /\ ctxDone' = [ctxDone EXCEPT ![p] = FALSE]
    /\ now' = [now EXCEPT ![p] = 0]
    /\ attempt' = [attempt EXCEPT ![p] = 0]
    /\ refresh' = [refresh EXCEPT ![p] = stopRefresh(refresh[p])]
    /\ UNCHANGED <<ret, dateDirs, snaps, target, partialSuccess, cfg, repoDir, sys, side, hist>>

(* --------------------------- handleBackupFlow -------------------------- *)
\* handleBackupFlow returns err: the deferred cleanup runs unless backupSuccessful
FlowFail(p, category, cleanup) ==
    /\ ret' = [ret EXCEPT ![p] = category]
    /\ pc' = [pc EXCEPT ![p] = IF cleanup THEN "cleanup" ELSE "release"]

\* handleBackupFlow: ctx check, now := time.Now(), and createUniqueSnapshotDir's
\* CreateDir(<repoDir>/<dateDir>)
FlowStart(p) ==
    /\ Running(p) /\ pc[p] = "flow"
    /\ IF ctxDone[p]
       THEN /\ FlowFail(p, "Interrupted", FALSE)
            /\ UNCHANGED <<now, attempt, dateDirs>>
       ELSE \E n \in Nows, ok \in BOOLEAN :
              /\ now' = [now EXCEPT ![p] = n]
              /\ attempt' = [attempt EXCEPT ![p] = 0]
              /\ IF ok
                 THEN /\ dateDirs' = dateDirs \cup {DateOf(n)}
                      /\ pc' = [pc EXCEPT ![p] = "res_mkdir"]
                      /\ UNCHANGED ret
                 ELSE /\ FlowFail(p, "Critical", FALSE)
                      /\ UNCHANGED dateDirs
    /\ UNCHANGED <<ctxDone, lock, snaps, target, partialSuccess, cfg, repoDir, sys, side, refresh, hist>>

\* the positions inside createUniqueSnapshotDir
ReservePcs == {"res_mkdir", "res_reserve"}

\* createUniqueSnapshotDir: candidate i
Candidate(p) == [n |-> now[p], i |-> attempt[p]]

\* the loop test with one candidate too many
LoopContinues_OneMore(i) == i <= MaxAttempts

\* createUniqueSnapshotDir: the loop test i < 100
LoopContinues(i) == i < MaxAttempts

\* createUniqueSnapshotDir: loop test and CreateDirExclusive(targetPath)
ReserveMkdir(p) ==
    /\ Running(p) /\ pc[p] = "res_mkdir"
    /\ IF ~LoopContinues(attempt[p])
       THEN /\ FlowFail(p, "Critical", FALSE)
            /\ hist' = [hist EXCEPT ![p].exhausted = TRUE]
            /\ UNCHANGED <<snaps, attempt>>
       ELSE IF DateOf(now[p]) \notin dateDirs
       THEN /\ FlowFail(p, "Critical", FALSE)          \* ENOENT
            /\ UNCHANGED <<snaps, attempt, hist>>
       ELSE IF CreateDirExclusive(Exists(Candidate(p))) = "EEXIST"
       THEN /\ attempt' = [attempt EXCEPT ![p] = @ + 1]   \* IsExist: continue
            /\ UNCHANGED <<snaps, pc, ret, hist>>
       ELSE /\ snaps' = IF Exists(Candidate(p)) THEN snaps
                          ELSE (Candidate(p) :> NewSnap(p)) @@ snaps
            /\ pc' = [pc EXCEPT ![p] = "res_reserve"]
            /\ hist' = [hist EXCEPT ![p].created = TRUE]
            /\ UNCHANGED <<attempt, ret>>
    /\ UNCHANGED <<ctxDone, lock, dateDirs, now, target, partialSuccess, cfg, repoDir, sys, side, refresh>>

\* createUniqueSnapshotDir: CreateDirExclusive(targetPath/.reserve)
ReserveMark(p) ==
    /\ Running(p) /\ pc[p] = "res_reserve"
    /\ LET nm == Candidate(p) IN
       IF ~Exists(nm)
       THEN /\ FlowFail(p, "Critical", FALSE)          \* ENOENT; RemoveAll is a no-op
            /\ UNCHANGED <<snaps, attempt, target, hist>>
       ELSE IF CreateDirExclusive(snaps[nm].reserve) = "EEXIST"
       THEN /\ snaps' = RemoveTimeDir(snaps, nm)        \* IsExist: remove, continue
            /\ attempt' = [attempt EXCEPT ![p] = @ + 1]
            /\ pc' = [pc EXCEPT ![p] = "res_mkdir"]
            /\ UNCHANGED <<ret, target, hist>>
       ELSE /\ snaps' = [snaps EXCEPT ![nm].reserve = TRUE,
                                      ![nm].claimants = @ \cup {p}]
            /\ target' = [target EXCEPT ![p] = nm]
            /\ pc' = [pc EXCEPT ![p] = "partial"]
            /\ hist' = [hist EXCEPT ![p].reserved = TRUE,
                                    ![p].during = {q \in Procs \ {p} : pc[q] \in ReservePcs}]
            /\ UNCHANGED <<ret, attempt>>
    /\ UNCHANGED <<ctxDone, lock, dateDirs, now, partialSuccess, cfg, repoDir, sys, side, refresh>>

\* the first marker written is .done instead of .partial
WritePartial_AsDone(p) ==
    /\ Running(p) /\ pc[p] = "partial"
    /\ \E ok \in BOOLEAN :
         IF ok /\ Exists(target[p])
         THEN /\ snaps' = [snaps EXCEPT ![target[p]].done = TRUE]
              /\ pc' = [pc EXCEPT ![p] = "copyA"]
              /\ UNCHANGED ret
         ELSE /\ FlowFail(p, "Critical", TRUE)
              /\ UNCHANGED snaps
    /\ UNCHANGED <<ctxDone, lock, dateDirs, now, attempt, target,
                   partialSuccess, cfg, repoDir, sys, side, refresh, hist>>

\* handleBackupFlow: WriteFile(targetPath/.partial)
WritePartial(p) ==
    /\ Running(p) /\ pc[p] = "partial"
    /\ \E ok \in BOOLEAN :
         IF ok /\ Exists(target[p])
         THEN /\ snaps' = [snaps EXCEPT ![target[p]].partial = TRUE]
              /\ pc' = [pc EXCEPT ![p] = "copyA"]
              /\ UNCHANGED ret
         ELSE /\ FlowFail(p, "Critical", TRUE)
              /\ UNCHANGED snaps
    /\ UNCHANGED <<ctxDone, lock, dateDirs, now, attempt, target,
                   partialSuccess, cfg, repoDir, sys, side, refresh, hist>>

(* ------------------------------- copy ---------------------------------- *)
CopyPcs == {"copyA", "listC", "copyE"}

\* copyRepoSnapshot up to the exclude list: resolveSnapshotGitDirs, Stat,
\* copyDirRecursive (Phase A), cleanupSnapshotWorktrees, readDevbackIgnore.
\* found: git rev-parse resolved the git directories and they exist (a git
\* process killed by the cancellation ends with an exit error, which is no
\* context error). errs: some entry failed to copy (copyErrors is not empty),
\* which wins over the ctx error of the walk.
CopyGitDir(p) ==
    /\ Running(p) /\ pc[p] = "copyA"
    /\ \E found, errs \in BOOLEAN :
         IF ~found
         THEN /\ FlowFail(p, "Critical", TRUE)
              /\ UNCHANGED <<snaps, partialSuccess>>
         ELSE IF errs
         THEN /\ partialSuccess' = [partialSuccess EXCEPT ![p] = TRUE]
              /\ FlowFail(p, "Critical", TRUE)
              /\ UNCHANGED snaps
         ELSE IF ctxDone[p]
         THEN /\ FlowFail(p, "Interrupted", TRUE)
              /\ UNCHANGED <<snaps, partialSuccess>>
         ELSE /\ pc' = [pc EXCEPT ![p] = "listC"]
              /\ snaps' = IF Exists(target[p])
                          THEN [snaps EXCEPT ![target[p]].bytes = SnapBytes]
                          ELSE snaps
              /\ UNCHANGED <<ret, partialSuccess>>
    /\ UNCHANGED <<ctxDone, lock, dateDirs, now, attempt, target, cfg, repoDir, sys, side, refresh, hist>>

\* copyRepoSnapshot: deps.Git.ListIgnoredUntracked(ctx, repoRoot); any error,
\* the one of a cancelled ctx included, is replaced by ErrCritical
ListCandidates(p) ==
    /\ Running(p) /\ pc[p] = "listC"
    /\ \E ok \in BOOLEAN :
         IF ok /\ ~ctxDone[p]
         THEN pc' = [pc EXCEPT ![p] = "copyE"] /\ UNCHANGED ret
         ELSE FlowFail(p, "Critical", TRUE)
    /\ UNCHANGED <<ctxDone, lock, dateDirs, snaps, now, attempt, target,
                   partialSuccess, cfg, repoDir, sys, side, refresh, hist>>

\* copyRepoSnapshot: filter, copySelectedFiles (Phase E) and the final ctx.Err()
\* test. errs: some path failed to copy (state.copyErrors is not empty).
CopySelected(p) ==
    /\ Running(p) /\ pc[p] = "copyE"
    /\ \E errs \in BOOLEAN :
         IF errs
         THEN /\ partialSuccess' = [partialSuccess EXCEPT ![p] = TRUE]
              /\ FlowFail(p, "Critical", TRUE)
              /\ hist' = [hist EXCEPT ![p].phaseE = TRUE]
         ELSE IF ctxDone[p]
         THEN /\ FlowFail(p, "Interrupted", TRUE)
              /\ UNCHANGED <<partialSuccess, hist>>
         ELSE /\ pc' = [pc EXCEPT ![p] = "rm_partial"]
              /\ hist' = [hist EXCEPT ![p].copied = TRUE]
              /\ UNCHANGED <<ret, partialSuccess>>
    /\ UNCHANGED <<ctxDone, lock, dateDirs, snaps, now, attempt, target, cfg, repoDir, sys, side, refresh>>

(* --------------------------- finalization ------------------------------ *)
\* finalization that leaves .partial in place
RemovePartial_Kept(p) ==
    /\ Running(p) /\ pc[p] = "rm_partial"
    /\ pc' = [pc EXCEPT ![p] = "write_done"]
    /\ UNCHANGED <<ctxDone, ret, lock, dateDirs, snaps, now, attempt, target,
                   partialSuccess, cfg, repoDir, sys, side, refresh, hist>>

\* handleBackupFlow: RemoveAll(partial)
RemovePartial(p) ==
    /\ Running(p) /\ pc[p] = "rm_partial"
    /\ snaps' = IF Exists(target[p])
                THEN [snaps EXCEPT ![target[p]].partial = FALSE]
                ELSE snaps
    /\ pc' = [pc EXCEPT ![p] = "write_done"]
    /\ UNCHANGED <<ctxDone, ret, lock, dateDirs, now, attempt, target,
                   partialSuccess, cfg, repoDir, sys, side, refresh, hist>>

\* handleBackupFlow: WriteFile(done)
WriteDone(p) ==
    /\ Running(p) /\ pc[p] = "write_done"
    /\ \E ok \in BOOLEAN :
         IF ok /\ Exists(target[p])
         THEN /\ snaps' = [snaps EXCEPT ![target[p]].done = TRUE]
              /\ pc' = [pc EXCEPT ![p] = "rm_reserve"]
              /\ hist' = [hist EXCEPT ![p].wroteDone = TRUE]
              /\ UNCHANGED ret
         ELSE /\ FlowFail(p, "Critical", TRUE)
              /\ UNCHANGED <<snaps, hist>>
    /\ UNCHANGED <<ctxDone, lock, dateDirs, now, attempt, target,
                   partialSuccess, cfg, repoDir, sys, side, refresh>>

\* finalization that leaves .reserve in place
RemoveReserve_Kept(p) ==
    /\ Running(p) /\ pc[p] = "rm_reserve"
    /\ IF ctxDone[p]
       THEN FlowFail(p, "Interrupted", FALSE)
       ELSE pc' = [pc EXCEPT ![p] = "rotate"] /\ UNCHANGED ret
    /\ UNCHANGED <<ctxDone, lock, dateDirs, snaps, now, attempt, target,
                   partialSuccess, cfg, repoDir, sys, side, refresh, hist>>

\* finalization that rotates before it tests the cancellation token
RemoveReserve_RotateFirst(p) ==
    /\ Running(p) /\ pc[p] = "rm_reserve"
    /\ LET S1 == IF Exists(target[p])
                 THEN [snaps EXCEPT ![target[p]].reserve = FALSE]
                 ELSE snaps
           K == RotationKills(S1, cfg)
       IN /\ snaps' = SnapsAfterRemoval(S1, K)
          /\ dateDirs' = DateDirsAfterRemoval(S1, dateDirs, K)
          /\ hist' = [hist EXCEPT ![p].rotated = TRUE, ![p].deleted = K,
                                  ![p].result = ~ctxDone[p]]
    /\ FlowFail(p, IF ctxDone[p] THEN "Interrupted"
                   ELSE IF partialSuccess[p] THEN "Critical" ELSE "ok", FALSE)
    /\ UNCHANGED <<ctxDone, lock, now, attempt, target, partialSuccess, cfg, repoDir, sys, side, refresh>>

\* handleBackupFlow: RemoveAll(reservePath), backupSuccessful = true, ctx test
RemoveReserve(p) ==
    /\ Running(p) /\ pc[p] = "rm_reserve"
    /\ snaps' = IF Exists(target[p])
                THEN [snaps EXCEPT ![target[p]].reserve = FALSE]
                ELSE snaps
    /\ IF ctxDone[p]
       THEN FlowFail(p, "Interrupted", FALSE)
       ELSE pc' = [pc EXCEPT ![p] = "rotate"] /\ UNCHANGED ret
    /\ UNCHANGED <<ctxDone, lock, dateDirs, now, attempt, target,
                   partialSuccess, cfg, repoDir, sys, side, refresh, hist>>

\* the deferred cleanup of handleBackupFlow: RemoveAll(targetPath) and
\* ReadDir(parentDir)
CleanupTarget(p) ==
    /\ Running(p) /\ pc[p] = "cleanup"
    /\ snaps' = RemoveTimeDir(snaps, target[p])
    /\ pc' = [pc EXCEPT ![p] =
                IF DateOf(target[p].n) \in dateDirs /\ DateDirEmpty(snaps', DateOf(target[p].n))
                THEN "cleanup_date" ELSE "release"]
    /\ UNCHANGED <<ctxDone, ret, lock, dateDirs, now, attempt, target,
                   partialSuccess, cfg, repoDir, sys, side, refresh, hist>>

\* a deferred cleanup that leaves the emptied parent directory in place
CleanupDateDir_Kept(p) ==
    /\ Running(p) /\ pc[p] = "cleanup_date"
    /\ pc' = [pc EXCEPT ![p] = "release"]
    /\ UNCHANGED <<ctxDone, ret, lock, dateDirs, snaps, now, attempt, target,
                   partialSuccess, cfg, repoDir, sys, side, refresh, hist>>

\* the deferred cleanup of handleBackupFlow: RemoveAll(parentDir)
CleanupDateDir(p) ==
    /\ Running(p) /\ pc[p] = "cleanup_date"
    /\ snaps' = RemoveDateDir(snaps, DateOf(target[p].n))
    /\ dateDirs' = dateDirs \ {DateOf(target[p].n)}
    /\ pc' = [pc EXCEPT ![p] = "release"]
    /\ UNCHANGED <<ctxDone, ret, lock, now, attempt, target,
                   partialSuccess, cfg, repoDir, sys, side, refresh, hist>>

(* ------------------------------ rotation ------------------------------- *)
\* handleBackupFlow: rotateRepo(ctx, deps, repoDir, cfg, false, bc) and return
\* the faults rotation can meet in this run
RotationFaults == IF cfg.IOFaults THEN Faults ELSE {"none"}

\* what handleBackupFlow returns after rotateRepo: rotateRepo has no return
\* value and its panic is recovered
AfterRotation(partial, fault) == IF partial THEN "Critical" ELSE "ok"

\* handleBackupFlow: rotateRepo(ctx, deps, repoDir, cfg, false, bc) and return
Rotate(p) ==
    /\ Running(p) /\ pc[p] = "rotate"
    /\ \E fault \in RotationFaults :
         LET kb == KilledBy(snaps, cfg, fault)
             after == rotateRepo(Disk(snaps, dateDirs), cfg, FALSE, fault)
         IN /\ snaps' = after.snaps
            /\ dateDirs' = after.dateDirs
            /\ hist' = [hist EXCEPT ![p].rotated = TRUE, ![p].deleted = AllKilled(kb),
                                    ![p].killed = kb, ![p].fault = fault,
                                    ![p].result = TRUE]
            /\ ret' = [ret EXCEPT ![p] = AfterRotation(partialSuccess[p], fault)]
    /\ pc' = [pc EXCEPT ![p] = "release"]
    /\ UNCHANGED <<ctxDone, lock, now, attempt, target, partialSuccess, cfg, repoDir, sys, side, refresh>>

(* ------------------------------- dry run ------------------------------- *)
\* Backup with cfg.DryRun: handleDryRun. planned: planRepoSnapshot returned
\* nil (it only reads). Stat(repoDir) selects whether rotateRepo runs, with
\* dryRun = true; the result is an empty BackupResult. No recover() encloses
\* this call of rotateRepo: a panic inside it leaves Backup as a panic.
HandleDryRun(p) ==
    /\ Running(p) /\ pc[p] = "start" /\ cfg.DryRun
    /\ \E planned \in BOOLEAN, fault \in RotationFaults :
         IF ~planned
         THEN /\ ReturnNoLock(p, "Critical")
              /\ UNCHANGED <<snaps, dateDirs, hist>>
         ELSE IF repoDir /\ fault = "panic"
         THEN /\ ReturnNoLock(p, "panic")
              /\ hist' = [hist EXCEPT ![p].dryRuns = @ + 1, ![p].fault = fault]
              /\ UNCHANGED <<snaps, dateDirs>>
         ELSE LET kb == IF repoDir THEN KilledBy(snaps, cfg, fault) ELSE NoKills
                  after == IF repoDir
                           THEN rotateRepo(Disk(snaps, dateDirs), cfg, TRUE, fault)
                           ELSE Disk(snaps, dateDirs)
              IN /\ snaps' = after.snaps
                 /\ dateDirs' = after.dateDirs
                 /\ hist' = [hist EXCEPT ![p].dryRuns = @ + 1, ![p].killed = kb,
                                         ![p].fault = fault, ![p].result = TRUE]
                 /\ ReturnNoLock(p, "ok")
    /\ UNCHANGED <<lock, now, attempt, target, partialSuccess, cfg, repoDir, sys, side, refresh>>

(* ------------------------- environment --------------------------------- *)
\* the process of the call is killed: no deferred function runs, its memory is
\* gone, what it wrote to the disk stays
Crash(p) ==
    /\ Running(p) /\ pc[p] # "start"
    /\ Cardinality({q \in Procs : pc[q] = "crashed"}) < MaxCrashes
    /\ pc' = [pc EXCEPT ![p] = "crashed"]
    /\ ctxDone' = [ctxDone EXCEPT ![p] = FALSE]
    /\ now' = [now EXCEPT ![p] = 0]
    /\ attempt' = [attempt EXCEPT ![p] = 0]
    /\ partialSuccess' = [partialSuccess EXCEPT ![p] = FALSE]
    /\ refresh' = [refresh EXCEPT ![p] = NoRefresh]
    /\ hist' = [hist EXCEPT ![p].found = "none"]
    /\ UNCHANGED <<ret, lock, dateDirs, snaps, target, cfg, repoDir, sys, side>>

\* the positions from which the call still reads its cancellation token
CtxPcs == {"flow", "res_mkdir", "res_reserve", "partial", "copyA", "listC", "copyE",
           "rm_partial", "write_done", "rm_reserve"}

\* the cancellation token of the call fires (where the call no longer reads it,
\* the firing changes nothing)
Cancel(p) ==
    /\ Running(p) /\ ~ctxDone[p] /\ pc[p] \in CtxPcs
    /\ ctxDone' = [ctxDone EXCEPT ![p] = TRUE]
    /\ hist' = [hist EXCEPT ![p].cancelInCopy = pc[p] \in CopyPcs]
    /\ UNCHANGED <<pc, ret, lock, dateDirs, snaps, now, attempt, target,
                   partialSuccess, cfg, repoDir, sys, side, refresh>>

(* --------------------------- initial states ---------------------------- *)
\* a lock directory left by an earlier process
LeftLock(pid, host) ==
    [exists |-> TRUE, owner |-> NoProc,
     info |-> [present |-> TRUE, pid |-> pid, age |-> 0, host |-> host,
               startId |-> pid, ticks |-> pid]]

\* a finished snapshot of an earlier day
OldSnap(ageH) == [owner |-> NoProc, claimants |-> {}, reserve |-> FALSE,
                  partial |-> FALSE, done |-> TRUE, ageH |-> ageH, bytes |-> SnapBytes]

\* a directory left by a killed process
LeftSnap == [owner |-> NoProc, claimants |-> {}, reserve |-> TRUE, partial |-> TRUE,
             done |-> FALSE, ageH |-> 0, bytes |-> 0]

EmptyDisk == << >>

\* finished snapshots of an earlier day, the oldest first
OldDisk == [nm \in {[n |-> 0, i |-> k] : k \in 0 .. (NumOld - 1)} |->
               OldSnap(IF nm.i = 0 THEN 48 ELSE 12)]

\* every candidate name of Now 1 is taken
FullDisk == [nm \in {[n |-> 1, i |-> k] : k \in 0 .. (MaxAttempts - 1)} |-> LeftSnap]

\* Config: the rotation settings and DryRun; IOFaults tells whether the
\* filesystem fails under rotation in this run
NoRotation == [KeepDays |-> 0, KeepCount |-> 0, MaxTotalGBPerRepo |-> 0,
               SizeMarginMB |-> 0, NoSize |-> FALSE, DryRun |-> FALSE,
               IOFaults |-> FALSE]
AgeAndCount == [KeepDays |-> 1, KeepCount |-> 1, MaxTotalGBPerRepo |-> 0,
                SizeMarginMB |-> 0, NoSize |-> TRUE, DryRun |-> FALSE,
                IOFaults |-> FALSE]
CountAndSize == [KeepDays |-> 0, KeepCount |-> 2, MaxTotalGBPerRepo |-> 2,
                 SizeMarginMB |-> -1, NoSize |-> FALSE, DryRun |-> FALSE,
                 IOFaults |-> FALSE]

\* a size limit below the size of one snapshot
TightSize == [KeepDays |-> 0, KeepCount |-> 0, MaxTotalGBPerRepo |-> 1,
              SizeMarginMB |-> -1, NoSize |-> FALSE, DryRun |-> FALSE,
              IOFaults |-> FALSE]

\* the situations a run starts from: <<lock directory, disk, configuration,
\* the calls that are made>>
Scenarios ==
    {<<NoDir, EmptyDisk, NoRotation, Procs>>,
     <<LeftLock(DeadPid, LocalHost), EmptyDisk, NoRotation, Procs>>,
     <<LeftLock(DeadPid, "other"), EmptyDisk, NoRotation, Procs>>,
     <<NoDir, OldDisk, AgeAndCount, Procs>>,
     <<NoDir, OldDisk, CountAndSize, Procs>>,
     <<NoDir, FullDisk, NoRotation, {"A"}>>,
     <<NoDir, OldDisk, [AgeAndCount EXCEPT !.DryRun = TRUE], Procs>>}

\* what the properties need to know of a call's past: it lost the lock to a
\* concurrent acquirer; it found the lock held; its reservation ran out of
\* candidates; it created a snapshot directory; its reservation returned, and
\* the calls that were inside createUniqueSnapshotDir then; copyRepoSnapshot
\* returned nil; it wrote .done; rotateRepo ran, and what it removed; it
\* returned a non-nil result; its token fired during copyRepoSnapshot; a path
\* failed to copy in Phase E; the lock directory its validation found, while
\* AcquireLock runs; AcquireLock returned nil; the
\* snapshots each rotation rule marked dead, and the fault rotation met; the
\* dry runs it made; the snapshots it removed one by one; the status scans it
\* made and the last one's answer
NoHist == [lostRace |-> FALSE, busy |-> FALSE, exhausted |-> FALSE,
           created |-> FALSE, reserved |-> FALSE, during |-> {}, copied |-> FALSE,
           wroteDone |-> FALSE, rotated |-> FALSE, deleted |-> {}, result |-> FALSE,
           cancelInCopy |-> FALSE, phaseE |-> FALSE, found |-> "none",
           acquired |-> FALSE,
           killed |-> NoKills, fault |-> "none", dryRuns |-> 0,
           removed |-> {}, scans |-> 0, status |-> [SnapshotCount |-> 0, TotalSizeKB |-> 0]]

CallsInit(scenarios) ==
    /\ ctxDone = [p \in Procs |-> FALSE]
    /\ ret = [p \in Procs |-> "none"]
    /\ \E sc \in scenarios :
         /\ lock = sc[1] /\ snaps = sc[2] /\ cfg = sc[3]
         /\ repoDir = (sc[1].exists \/ DOMAIN sc[2] # {})
         /\ pc = [p \in Procs |-> IF p \in sc[4] THEN "start" ELSE "idle"]
    /\ dateDirs = {DateOf(nm.n) : nm \in DOMAIN snaps}
    /\ now = [p \in Procs |-> 0]
    /\ attempt = [p \in Procs |-> 0]
    /\ target = [p \in Procs |-> NoTarget]
    /\ partialSuccess = [p \in Procs |-> FALSE]
    /\ hist = [p \in Procs |-> NoHist]
    /\ sys = DefaultSys
    /\ refresh = [p \in Procs |-> NoRefresh]

InitFrom(scenarios) == CallsInit(scenarios) /\ NoSide

Init == InitFrom(Scenarios)

Next ==
    \E p \in Procs :
        \/ HandleDryRun(p)
        \/ EnsureBackupDirs(p)
        \/ AcquireMkdir(p)
        \/ AcquireWriteInfo(p)
        \/ AcquireValidate(p)
        \/ AcquireRemoveStale(p)
        \/ AcquireMkdirAgain(p)
        \/ FlowStart(p)
        \/ ReserveMkdir(p)
        \/ ReserveMark(p)
        \/ WritePartial(p)
        \/ CopyGitDir(p)
        \/ ListCandidates(p)
        \/ CopySelected(p)
        \/ RemovePartial(p)
        \/ WriteDone(p)
        \/ RemoveReserve(p)
        \/ Rotate(p)
        \/ CleanupTarget(p)
        \/ CleanupDateDir(p)
        \/ ReleaseLock(p)
        \/ Crash(p)
        \/ Cancel(p)

Spec == Init /\ [][Next]_vars

(* ------------------------- one call on its own ------------------------- *)
\* finished snapshots of earlier days and one of the day of Now 1
BusyDisk == ([n |-> 1, i |-> MaxAttempts - 1] :> OldSnap(12)) @@ OldDisk

\* the situations of a run with a single Backup call
SoloScenarios ==
    {<<NoDir, EmptyDisk, NoRotation, {"A"}>>,
     <<NoDir, FullDisk, NoRotation, {"A"}>>,
     <<LeftLock(DeadPid, LocalHost), BusyDisk,
       [AgeAndCount EXCEPT !.IOFaults = TRUE], {"A"}>>,
     <<NoDir, OldDisk, [CountAndSize EXCEPT !.IOFaults = TRUE], {"A"}>>,
     <<NoDir, EmptyDisk, [NoRotation EXCEPT !.DryRun = TRUE], {"A"}>>,
     <<LeftLock(DeadPid, "other"), BusyDisk,
       [AgeAndCount EXCEPT !.DryRun = TRUE, !.IOFaults = TRUE], {"A"}>>,
     <<NoDir, OldDisk, [CountAndSize EXCEPT !.DryRun = TRUE], {"A"}>>,
     <<NoDir, EmptyDisk, TightSize, {"A"}>>}

SoloInit == InitFrom(SoloScenarios)

SpecSolo == SoloInit /\ [][Next]_vars

(* ------------------- rotation and status on their own ------------------ *)
NumDays == 2         \* <dateDir> directories of a repository directory
NumPerDay == 2       \* <timeDir> directories of one <dateDir>
MaxKeepDays == 1     \* largest KeepDays
MaxKeepCount == 2    \* largest KeepCount
MaxDryRuns == 2      \* dry-run rotations of one run
MaxRemoved == 1      \* direct removeSnapshot calls of one run
MaxScans == 1        \* status scans of one run

RotationNames == {[n |-> d, i |-> k] : d \in 0 .. (NumDays - 1), k \in 0 .. (NumPerDay - 1)}

\* what a <timeDir> can be: a finished snapshot (old or young, 1 GiB or one
\* byte), or a directory without .done left by a killed process after its copy
TimeDirs == {OldSnap(48), OldSnap(12), [OldSnap(12) EXCEPT !.bytes = 1],
             [LeftSnap EXCEPT !.bytes = SnapBytes]}

RotationDisks ==
    UNION {[names -> TimeDirs] : names \in SUBSET RotationNames}

\* <<MaxTotalGBPerRepo, SizeMarginMB, NoSize>>
SizeSettings == {<<0, 0, FALSE>>, <<1, 0, TRUE>>, <<1, 0, FALSE>>, <<1, -1, FALSE>>,
                 <<1, -2048, FALSE>>, <<2, 0, FALSE>>}

RotationConfigs ==
    {[KeepDays |-> kd, KeepCount |-> kc, MaxTotalGBPerRepo |-> sz[1],
      SizeMarginMB |-> sz[2], NoSize |-> sz[3], DryRun |-> FALSE, IOFaults |-> FALSE] :
        kd \in 0 .. MaxKeepDays, kc \in 0 .. MaxKeepCount, sz \in SizeSettings}

\* a repository directory with no Backup call in progress
RotationInit ==
    /\ pc = [p \in Procs |-> "idle"]
    /\ ctxDone = [p \in Procs |-> FALSE]
    /\ ret = [p \in Procs |-> "none"]
    /\ lock = NoDir
    /\ repoDir = TRUE
    /\ snaps \in RotationDisks
    /\ dateDirs = {DateOf(nm.n) : nm \in DOMAIN snaps}
    /\ cfg \in RotationConfigs
    /\ now = [p \in Procs |-> 0]
    /\ attempt = [p \in Procs |-> 0]
    /\ target = [p \in Procs |-> NoTarget]
    /\ partialSuccess = [p \in Procs |-> FALSE]
    /\ hist = [p \in Procs |-> NoHist]
    /\ sys = DefaultSys
    /\ refresh = [p \in Procs |-> NoRefresh]
    /\ NoSide

\* rotateRepo(ctx, deps, repoDir, cfg, true, bc) whose filesystem calls succeed
RotateRepoDryRun(p) ==
    /\ hist[p].dryRuns < MaxDryRuns /\ ~hist[p].rotated
    /\ hist[p].removed = {} /\ hist[p].scans = 0
    /\ LET after == rotateRepo(Disk(snaps, dateDirs), cfg, TRUE, "none")
       IN /\ snaps' = after.snaps
          /\ dateDirs' = after.dateDirs
          /\ hist' = [hist EXCEPT ![p].dryRuns = @ + 1,
                                  ![p].killed = KilledBy(snaps, cfg, "none")]
    /\ UNCHANGED <<pc, ctxDone, ret, lock, now, attempt, target, partialSuccess,
                   cfg, repoDir, sys, side, refresh>>

\* rotateRepo(ctx, deps, repoDir, cfg, false, bc) whose filesystem calls succeed
RotateRepoReal(p) ==
    /\ ~hist[p].rotated /\ hist[p].removed = {} /\ hist[p].scans = 0
    /\ LET kb == KilledBy(snaps, cfg, "none")
           after == rotateRepo(Disk(snaps, dateDirs), cfg, FALSE, "none")
       IN /\ snaps' = after.snaps
          /\ dateDirs' = after.dateDirs
          /\ hist' = [hist EXCEPT ![p].rotated = TRUE, ![p].killed = kb,
                                  ![p].deleted = AllKilled(kb)]
    /\ UNCHANGED <<pc, ctxDone, ret, lock, now, attempt, target, partialSuccess,
                   cfg, repoDir, sys, side, refresh>>

\* removeSnapshot(ctx, deps, s, bc) for one listed snapshot
RemoveSnapshot(p) ==
    /\ Cardinality(hist[p].removed) < MaxRemoved
    /\ ~hist[p].rotated /\ hist[p].dryRuns = 0 /\ hist[p].scans = 0
    /\ \E k \in 1 .. Len(listSnapshots(snaps)) :
         LET nm == listSnapshots(snaps)[k]
             after == removeSnapshot(Disk(snaps, dateDirs), nm)
         IN /\ snaps' = after.snaps
            /\ dateDirs' = after.dateDirs
            /\ hist' = [hist EXCEPT ![p].removed = @ \cup {nm}]
    /\ UNCHANGED <<pc, ctxDone, ret, lock, now, attempt, target, partialSuccess,
                   cfg, repoDir, sys, side, refresh>>

\* scanBackups on the repository directory, before or after a rotation
ScanBackups(p) ==
    /\ hist[p].scans < MaxScans
    /\ hist[p].dryRuns = 0 /\ hist[p].removed = {}
    /\ hist' = [hist EXCEPT ![p].scans = @ + 1, ![p].status = scanBackups(snaps)]
    /\ UNCHANGED <<pc, ctxDone, ret, lock, dateDirs, snaps, now, attempt, target,
                   partialSuccess, cfg, repoDir, sys, side, refresh>>

RotationNext ==
    \/ RotateRepoReal("A")
    \/ RotateRepoDryRun("A")
    \/ RemoveSnapshot("A")
    \/ ScanBackups("A")

SpecRotation == RotationInit /\ [][RotationNext]_vars

(* ----------------- one AcquireLock on a lock left behind --------------- *)
\* the records a lock directory left behind can hold: written up to 25 hours
\* ago, with or without a hostname, a start id and start ticks, by a process
\* that is not one of the calls
LeftAges == {0, MaxAgeH, MaxAgeH + 1}

LeftInfos ==
    {[present |-> TRUE, pid |-> ForeignPid, age |-> a, host |-> h,
      startId |-> id, ticks |-> t] :
        a \in LeftAges, h \in {"", LocalHost, "other"},
        id \in {"", ForeignPid}, t \in {"", ForeignPid}}

\* the systems AcquireLock can run on: runtime.GOOS; os.Hostname() succeeds or
\* not; no process has the recorded pid, the recorder still has it, or a later
\* process has it; the start of a living process can be read or not
Systems ==
    {[goos |-> g, hostnameOk |-> h, foreign |-> f, query |-> q] :
        g \in {"linux", "darwin", "other"}, h \in BOOLEAN,
        f \in {"dead", "same", "reused"}, q \in BOOLEAN}

LockInit ==
    /\ ctxDone = [p \in Procs |-> FALSE]
    /\ ret = [p \in Procs |-> "none"]
    /\ \E info \in LeftInfos \cup {NoInfo} :
         lock = [exists |-> TRUE, owner |-> NoProc, info |-> info]
    /\ sys \in Systems
    /\ snaps = EmptyDisk /\ cfg = NoRotation /\ repoDir = TRUE
    /\ pc = [p \in Procs |-> IF p = "A" THEN "acq_mkdir" ELSE "idle"]
    /\ dateDirs = {}
    /\ now = [p \in Procs |-> 0]
    /\ attempt = [p \in Procs |-> 0]
    /\ target = [p \in Procs |-> NoTarget]
    /\ partialSuccess = [p \in Procs |-> FALSE]
    /\ hist = [p \in Procs |-> NoHist]
    /\ refresh = [p \in Procs |-> NoRefresh]
    /\ NoSide

LockNext ==
    \/ AcquireMkdir("A")
    \/ AcquireValidate("A")
    \/ AcquireRemoveStale("A")
    \/ AcquireMkdirAgain("A")
    \/ AcquireWriteInfo("A")

SpecLock == LockInit /\ [][LockNext]_vars

\* AcquireLock is straight-line code: each of its steps is taken
SpecLockFair == SpecLock /\ WF_vars(LockNext)

(* --------------------- the lock-refresh goroutine ---------------------- *)
MaxHours == 2     \* hours that pass during one run

\* the goroutine after a RefreshLock: back in its select, which returns when
\* the refresh context is done
AfterRefresh(p) == IF refresh[p].stop \/ ctxDone[p] THEN NoRefresh
                   ELSE [NoRefresh EXCEPT !.st = "wait"]

\* an hour passes (lockRefreshInterval): every record is an hour older and the
\* ticker of every waiting goroutine fires. A RefreshLock takes less than an hour
Hour ==
    /\ lock.exists /\ lock.info.present /\ lock.info.age < MaxHours
    /\ \A p \in Procs : refresh[p].st \in {"off", "wait"}
    /\ lock' = [lock EXCEPT !.info.age = @ + 1]
    /\ refresh' = [p \in Procs |-> IF refresh[p].st = "wait"
                                   THEN [refresh[p] EXCEPT !.st = "fired"]
                                   ELSE refresh[p]]
    /\ UNCHANGED <<pc, ctxDone, ret, dateDirs, snaps, now, attempt, target,
                   partialSuccess, cfg, repoDir, sys, side, hist>>

\* the goroutine's select takes <-refreshCtx.Done() and the goroutine returns
RefreshExit(p) ==
    /\ refresh[p].st \in {"wait", "fired"} /\ (refresh[p].stop \/ ctxDone[p])
    /\ refresh' = [refresh EXCEPT ![p] = NoRefresh]
    /\ UNCHANGED <<pc, ctxDone, ret, lock, dateDirs, snaps, now, attempt, target,
                   partialSuccess, cfg, repoDir, sys, side, hist>>

\* the goroutine's select takes <-ticker.C; RefreshLock: readLockInfo(lockFile)
RefreshRead(p) ==
    /\ refresh[p].st = "fired"
    /\ refresh' = [refresh EXCEPT ![p] =
                     IF lock.exists /\ lock.info.present
                     THEN [@ EXCEPT !.st = "read", !.info = lock.info]
                     ELSE AfterRefresh(p)]
    /\ UNCHANGED <<pc, ctxDone, ret, lock, dateDirs, snaps, now, attempt, target,
                   partialSuccess, cfg, repoDir, sys, side, hist>>

\* RefreshLock: createLockFile, os.WriteFile opens lockFile with
\* O_WRONLY|O_CREATE|O_TRUNC: the file is empty until the data is written
RefreshTruncate(p) ==
    /\ refresh[p].st = "read"
    /\ IF lock.exists
       THEN /\ lock' = [lock EXCEPT !.info = NoInfo]
            /\ refresh' = [refresh EXCEPT ![p].st = "trunc", ![p].dir = lock.owner]
       ELSE /\ refresh' = [refresh EXCEPT ![p] = AfterRefresh(p)]
            /\ UNCHANGED lock
    /\ UNCHANGED <<pc, ctxDone, ret, dateDirs, snaps, now, attempt, target,
                   partialSuccess, cfg, repoDir, sys, side, hist>>

\* RefreshLock: os.WriteFile writes the record read, with StartTime = now, to
\* the file it opened (which is gone if its directory was removed since)
RefreshWrite(p) ==
    /\ refresh[p].st = "trunc"
    /\ lock' = IF lock.exists /\ lock.owner = refresh[p].dir
               THEN [lock EXCEPT !.info = [refresh[p].info EXCEPT !.age = 0]]
               ELSE lock
    /\ refresh' = [refresh EXCEPT ![p] = AfterRefresh(p)]
    /\ UNCHANGED <<pc, ctxDone, ret, dateDirs, snaps, now, attempt, target,
                   partialSuccess, cfg, repoDir, sys, side, hist>>

\* handleBackupFlow from its start to its return, whatever it returns; this
\* specification does not observe the backup directory, whose variables keep
\* their values
HandleBackupFlow(p) ==
    /\ Running(p) /\ pc[p] = "flow"
    /\ pc' = [pc EXCEPT ![p] = "release"]
    /\ \E category \in {"ok", "Critical", "Interrupted"} :
         ret' = [ret EXCEPT ![p] = category]
    /\ UNCHANGED <<ctxDone, lock, dateDirs, snaps, now, attempt, target,
                   partialSuccess, cfg, repoDir, sys, side, refresh, hist>>

RefreshInit == InitFrom({<<NoDir, EmptyDisk, NoRotation, Procs>>})

RefreshNext ==
    \/ Hour
    \/ \E p \in Procs :
         \/ EnsureBackupDirs(p)
         \/ AcquireMkdir(p)
         \/ AcquireWriteInfo(p)
         \/ AcquireValidate(p)
         \/ AcquireRemoveStale(p)
         \/ AcquireMkdirAgain(p)
         \/ HandleBackupFlow(p)
         \/ ReleaseLock(p)
         \/ Crash(p)
         \/ Cancel(p)
         \/ RefreshExit(p)
         \/ RefreshRead(p)
         \/ RefreshTruncate(p)
         \/ RefreshWrite(p)

SpecRefresh == RefreshInit /\ [][RefreshNext]_vars

\* two calls that contend for the lock of a repository whose lock directory is
\* absent or was left behind by a process that is dead
TakeoverInit ==
    InitFrom({<<NoDir, EmptyDisk, NoRotation, Procs>>,
              <<LeftLock(DeadPid, LocalHost), EmptyDisk, NoRotation, Procs>>})

SpecTakeover == TakeoverInit /\ [][RefreshNext]_vars

(* --------------------------- exit status ------------------------------- *)
exitSuccess == 0
exitCriticalError == 1
exitLockBusy == 76
exitUsageError == 2
exitInterrupted == 130

\* the sentinel errors of the use cases, and errors that are none of them
ErrUsage == "usage error"
ErrCritical == "critical error"
ErrLockBusy == "lock busy"
ErrInterrupted == "interrupted"
ContextCanceled == "context canceled"
OtherError == "some other error"

ErrorKinds == {ErrUsage, ErrCritical, ErrLockBusy, ErrInterrupted, ContextCanceled, OtherError}

\* an error is the chain of errors it wraps, outermost first; nil (NilError)
\* is the empty chain
MaxWrap == 3      \* errors wrapped in one another

Errors == UNION {[1 .. n -> ErrorKinds] : n \in 0 .. MaxWrap}

\* errors.Is(err, target)
errorsIs(err, sentinel) == \E k \in 1 .. Len(err) : err[k] = sentinel

\* a mapExitCode that tests for ErrCritical first
mapExitCode_CriticalFirst(err) ==
    IF err = NilError THEN exitSuccess
    ELSE IF errorsIs(err, ErrCritical) THEN exitCriticalError
    ELSE IF errorsIs(err, ErrUsage) THEN exitUsageError
    ELSE IF errorsIs(err, ErrLockBusy) THEN exitLockBusy
    ELSE IF errorsIs(err, ErrInterrupted) THEN exitInterrupted
    ELSE exitSuccess

\* mapExitCode(err)
mapExitCode(err) ==
    IF err = NilError THEN exitSuccess
    ELSE IF errorsIs(err, ErrUsage) THEN exitUsageError
    ELSE IF errorsIs(err, ErrLockBusy) THEN exitLockBusy
    ELSE IF errorsIs(err, ErrInterrupted) THEN exitInterrupted
    ELSE exitCriticalError

ExitInit ==
    /\ CallsInit({<<NoDir, EmptyDisk, NoRotation, {}>>})
    /\ hook = NoHook /\ key = NoKey /\ NoInside
    /\ \E err \in Errors : cli = [NoExit EXCEPT !.err = err]

\* runMain: the command returns err and the process exits with
\* mapExitCodeWithLog(err)
RunMain ==
    /\ ~cli.returned
    /\ cli' = [cli EXCEPT !.returned = TRUE, !.code = mapExitCode(cli.err)]
    /\ UNCHANGED <<pc, ctxDone, ret, lock, dateDirs, snaps, now, attempt, target,
                   partialSuccess, cfg, repoDir, sys, refresh, hook, key, sel, copy,
                   hist>>

ExitNext == RunMain

SpecExit == ExitInit /\ [][ExitNext]_vars

(* ------------------------------ git hooks ------------------------------ *)
debounceTimeout == 60      \* seconds
TicksPerSecond == 2        \* resolution of the clock: ticks in a second
MaxRuns == 2               \* hook invocations of one run

TimeoutTicks == debounceTimeout * TicksPerSecond

\* the times between two invocations: half a second, and the timeout less a
\* second, less half a second, and exactly
Waits == {1, TimeoutTicks - TicksPerSecond, TimeoutTicks - 1, TimeoutTicks}
MaxClock == 2 * TimeoutTicks

\* the stamp file: missing (NoStamp), not a decimal number, or the unix
\* seconds written
JunkStamp == [kind |-> "junk", ts |-> 0]
StampAt(ts) == [kind |-> "time", ts |-> ts]

\* what Backup returns to a hook: nil or a wrapped error
BackupErrors == {NilError, <<ErrCritical, OtherError>>, <<ErrLockBusy, OtherError>>,
                 <<ErrInterrupted, ContextCanceled>>, <<ContextCanceled>>}

\* what an invocation meets: runHookPreflight succeeds; ctx is cancelled;
\* GIT_REFLOG_ACTION names a rebase (post-commit reads it); isRebaseInProgress
\* answers no, yes or fails; --dry-run; what Backup returns; and, where the
\* hook has a stamp: the stamp path resolves; the stamp file can be read; it
\* can be written (and ctx is still live then)
HookInputs(reflogs, stampIO) ==
    [preflight : BOOLEAN, ctxErr : BOOLEAN, reflog : reflogs,
     inRebase : {"no", "yes", "error"}, dryRun : BOOLEAN, err : BackupErrors,
     stampPath : stampIO, readOk : stampIO, writeOk : stampIO]

\* the command argument git passes, as typed
Commands == {"rebase", " Rebase", "amend"}

\* strings.ToLower(strings.TrimSpace(command))
NormalizeCommand(command) == IF command = " Rebase" THEN "rebase" ELSE command

\* time.Unix(ts, 0) on the clock
UnixTime(ts) == ts * TicksPerSecond

\* time.Now().Unix()
NowUnix(t) == t \div TicksPerSecond

\* an isDebounceActive that is never active
isDebounceActive_Never(stamp, pathOk, readOk, t) == FALSE

\* isDebounceActive(ctx, fs, stampPath, now): <<active, err>> without the err
isDebounceActive(stamp, pathOk, readOk, t) ==
    IF ~pathOk THEN FALSE
    ELSE IF stamp = NoStamp THEN FALSE
    ELSE IF ~readOk THEN FALSE
    ELSE IF stamp.kind = "junk" THEN FALSE
    ELSE t - UnixTime(stamp.ts) < TimeoutTicks

\* updateStampWithLog, updateStamp: the stamp file afterwards
updateStamp(stamp, pathOk, writeOk, t) ==
    IF pathOk /\ writeOk THEN StampAt(NowUnix(t)) ELSE stamp

\* what an invocation did: Backup was called, what it returned, the exit
\* status, the stamp file afterwards, and whether the debounce was active
Skipped(stamp) == [called |-> FALSE, err |-> NilError, exit |-> exitSuccess,
                   stamp |-> stamp, debounce |-> FALSE]

\* a runBackupWithNotify that returns the exit status of the error
runBackupWithNotify_MapsExitCode(in, stamp) ==
    IF in.ctxErr \/ in.dryRun THEN Skipped(stamp)
    ELSE [Skipped(stamp) EXCEPT !.called = TRUE, !.err = in.err,
                                !.exit = mapExitCode(in.err)]

\* runBackupWithNotify
runBackupWithNotify(in, stamp) ==
    IF in.ctxErr \/ in.dryRun THEN Skipped(stamp)
    ELSE [Skipped(stamp) EXCEPT !.called = TRUE, !.err = in.err, !.exit = exitSuccess]

\* a runPostRewriteBackup that stamps after a successful Backup only
runPostRewriteBackup_StampsOnSuccess(in, stamp, t) ==
    IF in.ctxErr \/ in.dryRun THEN Skipped(stamp)
    ELSE [Skipped(stamp) EXCEPT
            !.called = TRUE, !.err = in.err, !.exit = exitSuccess,
            !.stamp = IF in.err = NilError
                      THEN updateStamp(stamp, in.stampPath, in.writeOk, t) ELSE stamp]

\* runPostRewriteBackup
runPostRewriteBackup(in, stamp, t) ==
    IF in.ctxErr \/ in.dryRun THEN Skipped(stamp)
    ELSE [Skipped(stamp) EXCEPT
            !.called = TRUE, !.err = in.err, !.exit = exitSuccess,
            !.stamp = IF in.err # NilError
                         /\ (\/ errorsIs(in.err, ErrLockBusy)
                             \/ errorsIs(in.err, ErrInterrupted)
                             \/ errorsIs(in.err, ContextCanceled))
                      THEN stamp
                      ELSE updateStamp(stamp, in.stampPath, in.writeOk, t)]

\* runHookPostRewrite
runHookPostRewrite(command, in, stamp, t) ==
    IF ~in.preflight \/ in.ctxErr THEN Skipped(stamp)
    ELSE IF NormalizeCommand(command) = "rebase" /\ in.inRebase # "no" THEN Skipped(stamp)
    ELSE IF /\ NormalizeCommand(command) = "rebase"
            /\ isDebounceActive(stamp, in.stampPath, in.readOk, t)
         THEN [Skipped(stamp) EXCEPT !.debounce = TRUE]
    ELSE runPostRewriteBackup(in, stamp, t)

\* runHookPostCommit
runHookPostCommit(in, stamp) ==
    IF ~in.preflight \/ in.ctxErr \/ in.reflog \/ in.inRebase # "no" THEN Skipped(stamp)
    ELSE runBackupWithNotify(in, stamp)

\* runHookPostMerge
runHookPostMerge(in, stamp) ==
    IF ~in.preflight \/ in.ctxErr \/ in.inRebase # "no" THEN Skipped(stamp)
    ELSE runBackupWithNotify(in, stamp)

\* the invocation as the properties see it
RunOf(name, rebase, in, r) ==
    [hook |-> name, rebase |-> rebase,
     eligible |-> in.preflight /\ ~in.ctxErr /\ ~in.dryRun /\ (rebase => in.inRebase = "no"),
     called |-> r.called, err |-> r.err, exit |-> r.exit, debounce |-> r.debounce,
     at |-> hook.clock, readable |-> in.stampPath /\ in.readOk,
     wrote |-> in.stampPath /\ in.writeOk]

\* the hook command has run: its exit status, the stamp file, and the
\* snapshot a Backup that returned nil has completed
AfterHook(name, rebase, in, r) ==
    [hook EXCEPT !.runs = @ + 1, !.stamp = r.stamp,
                 !.snapshots = IF r.called /\ r.err = NilError THEN @ + 1 ELSE @,
                 !.prev = [completed |-> hook.last.rebase /\ hook.last.called
                                           /\ hook.last.err = NilError,
                           wrote |-> hook.last.wrote, at |-> hook.last.at],
                 !.last = RunOf(name, rebase, in, r)]

\* devback hook post-rewrite <command>
HookPostRewrite ==
    /\ hook.runs < MaxRuns
    /\ \E command \in Commands, in \in HookInputs({FALSE}, BOOLEAN) :
         hook' = AfterHook("post-rewrite", NormalizeCommand(command) = "rebase", in,
                           runHookPostRewrite(command, in, hook.stamp, hook.clock))
    /\ UNCHANGED <<pc, ctxDone, ret, lock, dateDirs, snaps, now, attempt, target,
                   partialSuccess, cfg, repoDir, sys, refresh, cli, key, sel, copy,
                   hist>>

\* devback hook post-commit
HookPostCommit ==
    /\ hook.runs < MaxRuns
    /\ \E in \in HookInputs(BOOLEAN, {FALSE}) :
         hook' = AfterHook("post-commit", FALSE, in, runHookPostCommit(in, hook.stamp))
    /\ UNCHANGED <<pc, ctxDone, ret, lock, dateDirs, snaps, now, attempt, target,
                   partialSuccess, cfg, repoDir, sys, refresh, cli, key, sel, copy,
                   hist>>

\* devback hook post-merge
HookPostMerge ==
    /\ hook.runs < MaxRuns
    /\ \E in \in HookInputs({FALSE}, {FALSE}) :
         hook' = AfterHook("post-merge", FALSE, in, runHookPostMerge(in, hook.stamp))
    /\ UNCHANGED <<pc, ctxDone, ret, lock, dateDirs, snaps, now, attempt, target,
                   partialSuccess, cfg, repoDir, sys, refresh, cli, key, sel, copy,
                   hist>>

\* time passes between two invocations
Wait ==
    /\ 0 < hook.runs /\ hook.runs < MaxRuns /\ hook.clock = hook.last.at
    /\ \E d \in Waits : /\ hook.clock + d <= MaxClock
                        /\ hook' = [hook EXCEPT !.clock = @ + d]
    /\ UNCHANGED <<pc, ctxDone, ret, lock, dateDirs, snaps, now, attempt, target,
                   partialSuccess, cfg, repoDir, sys, refresh, cli, key, sel, copy,
                   hist>>

HookInit ==
    /\ CallsInit({<<NoDir, EmptyDisk, NoRotation, {}>>})
    /\ cli = NoExit /\ key = NoKey /\ NoInside
    /\ \E stamp \in {NoStamp, JunkStamp, StampAt(0)}, t \in 0 .. (TicksPerSecond - 1) :
         hook = [NoHook EXCEPT !.stamp = stamp, !.clock = t]

HookNext == HookPostRewrite \/ HookPostCommit \/ HookPostMerge \/ Wait

SpecHook == HookInit /\ [][HookNext]_vars

(* --------------------------- the repository key ------------------------ *)
\* Strings are sequences of one-character strings, so that trimming,
\* splitting and joining are computed as the code computes them.
MaxKeyClock == 1           \* the wall clock runs from 0 to MaxKeyClock
MaxDerivations == 2        \* derivations of the key in one run
DefaultHashLen == 8        \* shortHash, and shortHashN for n <= 0
HashHexLen == 64           \* hex digits of a SHA-256 sum

repoKeyStyleAuto == <<"a", "u", "t", "o">>
repoKeyStyleCustom == <<"c", "u", "s", "t", "o", "m">>
repoKeyStyleRemoteHierarchy ==
    <<"r", "e", "m", "o", "t", "e", "-", "h", "i", "e", "r", "a", "r", "c", "h", "y">>
repoKeyStyleNameHash == <<"n", "a", "m", "e", "-", "h", "a", "s", "h">>

\* the characters of the paths that are hashed, and the ones sanitizeSegment
\* keeps
Alphabet == <<"a", "b", "h", "g", "i", "t", ".", "_", "-", " ", "/", "+">>
Code(ch) == CHOOSE i \in 1 .. Len(Alphabet) : Alphabet[i] = ch
Kept == {"a", "b", "h", "g", "i", "t", ".", "_", "-"}
HexDigits == <<"0", "1", "2", "3", "4", "5", "6", "7",
               "8", "9", "a", "b", "c", "d", "e", "f">>
DotGit == <<".", "g", "i", "t">>

RECURSIVE TrimLeft(_, _)
TrimLeft(s, cutset) ==
    IF s # << >> /\ Head(s) \in cutset THEN TrimLeft(Tail(s), cutset) ELSE s

RECURSIVE TrimRight(_, _)
TrimRight(s, cutset) ==
    IF s # << >> /\ s[Len(s)] \in cutset
    THEN TrimRight(SubSeq(s, 1, Len(s) - 1), cutset)
    ELSE s

Trim(s, cutset) == TrimRight(TrimLeft(s, cutset), cutset)

TrimSpace(s) == Trim(s, {" "})

TrimSuffix(s, suffix) ==
    IF /\ Len(s) >= Len(suffix)
       /\ SubSeq(s, Len(s) - Len(suffix) + 1, Len(s)) = suffix
    THEN SubSeq(s, 1, Len(s) - Len(suffix))
    ELSE s

\* strings.Split: the pieces between the separators, empty ones included
RECURSIVE Split(_, _)
Split(s, sep) ==
    IF \A i \in 1 .. Len(s) : s[i] # sep
    THEN <<s>>
    ELSE LET i == CHOOSE k \in 1 .. Len(s) :
                      s[k] = sep /\ \A j \in 1 .. (k - 1) : s[j] # sep
         IN  <<SubSeq(s, 1, i - 1)>> \o Split(SubSeq(s, i + 1, Len(s)), sep)

NonEmpty(s) == s # << >>

\* filepath.Clean on the elements of a path: "." is dropped and ".." takes
\* back the element before it, if there is one that is not ".." itself
RECURSIVE Clean(_, _)
Clean(done, rest) ==
    IF rest = << >> THEN done
    ELSE LET h == Head(rest)
         IN  IF h = <<".">> THEN Clean(done, Tail(rest))
             ELSE IF /\ h = <<".", ".">> /\ done # << >>
                     /\ done[Len(done)] # <<".", ".">>
             THEN Clean(SubSeq(done, 1, Len(done) - 1), Tail(rest))
             ELSE Clean(Append(done, h), Tail(rest))

RECURSIVE JoinAll(_)
JoinAll(segs) ==
    IF segs = << >> THEN << >>
    ELSE IF Len(segs) = 1 THEN segs[1]
    ELSE segs[1] \o <<"/">> \o JoinAll(Tail(segs))

\* filepath.Join of elements that hold no separator: the empty ones are
\* dropped, the others joined by "/" and the result cleaned
Join(segs) ==
    LET elems == SelectSeq(segs, NonEmpty)
        clean == Clean(<< >>, elems)
    IN  IF elems = << >> THEN << >>
        ELSE IF clean = << >> THEN <<".">>
        ELSE JoinAll(clean)

\* filepath.Base
Base(path) ==
    IF path = << >> THEN <<".">>
    ELSE LET p == TrimRight(path, {"/"})
             parts == Split(p, "/")
         IN  IF p = << >> THEN <<"/">> ELSE parts[Len(parts)]

sanitizeSegment(s) ==
    LET b == [i \in 1 .. Len(s) |-> IF s[i] \in Kept THEN s[i] ELSE "_"]
        out == Trim(TrimLeft(SubSeq(b, 1, Len(s)), {"."}), {"_", "-", " "})
    IN  IF out = << >> THEN <<"r", "e", "p", "o">> ELSE out

\* a digest in place of SHA-256: a fixed function of the characters of s and
\* their positions, written as HashHexLen hex digits
RECURSIVE Weight(_, _)
Weight(s, k) ==
    IF s = << >> THEN 0 ELSE Code(Head(s)) * k + Weight(Tail(s), k + 1)

sha256Hex(s) ==
    [i \in 1 .. HashHexLen |-> HexDigits[((Weight(s, 1) * i + i * i) % 16) + 1]]

\* a hash salted with the time of the derivation
shortHash_Salted(s) ==
    [i \in 1 .. DefaultHashLen |->
        HexDigits[((Weight(s, 1) * i + i * i + key.clock) % 16) + 1]]

shortHash(s) == SubSeq(sha256Hex(s), 1, DefaultHashLen)

shortHashN(s, n) ==
    LET m == IF n <= 0 THEN DefaultHashLen
             ELSE IF n > HashHexLen THEN HashHexLen ELSE n
    IN  SubSeq(sha256Hex(s), 1, m)

\* A remote is [form, host, path]: form "scp" is user@host:path without "://",
\* form "url" is what url.Parse accepts, host is its Host (empty for
\* file:///...), form "empty" is the empty string
NoParts == << << >>, << >>, << >> >>

parseRemote(remote) ==
    LET scp == Split(TrimSuffix(remote.path, DotGit), "/")
        url == Split(Trim(TrimSuffix(remote.path, DotGit), {"/"}), "/")
    IN  IF remote.form = "scp" /\ Len(scp) >= 2
        THEN <<remote.host, scp[Len(scp) - 1], scp[Len(scp)]>>
        ELSE IF remote.form = "url" /\ remote.host # << >> /\ Len(url) >= 2
        THEN <<remote.host, url[Len(url) - 1], url[Len(url)]>>
        ELSE NoParts

NoRepoKey == [ok |-> FALSE, key |-> << >>]

repoKeyNameHash(repoRoot) ==
    sanitizeSegment(Base(repoRoot)) \o <<"-", "-">> \o shortHash(repoRoot)

repoKeyFromSlug(repoRoot, slug) ==
    LET parts == Split(slug, "/")
        segs == SelectSeq([i \in 1 .. Len(parts) |-> sanitizeSegment(parts[i])],
                          NonEmpty)
    IN  IF segs = << >> THEN NoRepoKey
        ELSE [ok |-> TRUE,
              key |-> Join(Append(segs, sanitizeSegment(Base(repoRoot))))]

repoKeyFromRemote(remote, repoRoot, in) ==
    LET p == parseRemote(remote)
        k == Join(<<sanitizeSegment(p[1]), sanitizeSegment(p[2]),
                    sanitizeSegment(p[3])>>)
    IN  IF p[1] = << >> \/ p[2] = << >> \/ p[3] = << >> THEN NoRepoKey
        ELSE [ok |-> TRUE,
              key |-> IF ~in.AutoRemoteMerge
                      THEN k \o <<"-", "-">> \o shortHashN(repoRoot, in.RemoteHashLen)
                      ELSE k]

\* in.slug and in.remote are what Git.ConfigGet returns for backup.slug and
\* remote.origin.url: [ok, value], ok = FALSE for an error
deriveRepoKeyAuto(in) ==
    LET bySlug == repoKeyFromSlug(in.repoRoot, in.slug.value)
        byRemote == repoKeyFromRemote(in.remote.value, in.repoRoot, in)
    IN  IF in.slug.ok /\ TrimSpace(in.slug.value) # << >> /\ bySlug.ok
        THEN bySlug
        ELSE IF in.remote.ok /\ in.remote.value.form # "empty" /\ byRemote.ok
        THEN byRemote
        ELSE NoRepoKey

deriveRepoKeyCustom(in) ==
    IF ~in.slug.ok \/ TrimSpace(in.slug.value) = << >> THEN NoRepoKey
    ELSE repoKeyFromSlug(in.repoRoot, in.slug.value)

deriveRepoKeyRemoteHierarchy(in) ==
    LET p == parseRemote(in.remote.value)
    IN  IF ~in.remote.ok \/ in.remote.value.form = "empty" THEN NoRepoKey
        ELSE IF p[1] = << >> \/ p[2] = << >> \/ p[3] = << >> THEN NoRepoKey
        ELSE [ok |-> TRUE,
              key |-> Join(<<sanitizeSegment(p[1]), sanitizeSegment(p[2]),
                             sanitizeSegment(p[3])>>)]

deriveRepoKey(in) ==
    LET trimmed == TrimSpace(in.RepoKeyStyle)
        style == IF trimmed = << >> THEN repoKeyStyleAuto ELSE trimmed
        found == IF style = repoKeyStyleAuto THEN deriveRepoKeyAuto(in)
                 ELSE IF style = repoKeyStyleCustom THEN deriveRepoKeyCustom(in)
                 ELSE IF style = repoKeyStyleRemoteHierarchy
                 THEN deriveRepoKeyRemoteHierarchy(in)
                 ELSE NoRepoKey
    IN  IF found.ok THEN found.key ELSE repoKeyNameHash(in.repoRoot)

\* the inputs of a derivation
Roots == { <<"/", "a", "/", "b">>,
           <<"/", "a", "/", ".", "b", "+", "/">>,
           <<"/", "h", "/", "_", "-">> }

Slugs == { [ok |-> FALSE, value |-> << >>],
           [ok |-> TRUE, value |-> <<" ">>],
           [ok |-> TRUE, value |-> <<"a", "/", "b">>],
           [ok |-> TRUE, value |-> <<"/", "+", ".">>],
           [ok |-> TRUE, value |-> <<"a", "/", "_", ".", ".">>] }

EmptyRemote == [form |-> "empty", host |-> << >>, path |-> << >>]

Remotes ==
    { [ok |-> FALSE, value |-> EmptyRemote],
      [ok |-> TRUE, value |-> EmptyRemote],
      [ok |-> TRUE, value |-> [form |-> "scp", host |-> <<"h">>,
                               path |-> <<"a", "/", "b", ".", "g", "i", "t">>]],
      [ok |-> TRUE, value |-> [form |-> "scp", host |-> <<"h">>,
                               path |-> <<"b", ".", "g", "i", "t">>]],
      [ok |-> TRUE, value |-> [form |-> "url", host |-> <<"h">>,
                               path |-> <<"/", "a", "/", "b", "+", "/">>]],
      [ok |-> TRUE, value |-> [form |-> "url", host |-> << >>,
                               path |-> <<"/", "a", "/", "b">>]] }

Styles == { << >>, <<" ">> \o repoKeyStyleAuto, repoKeyStyleCustom,
            repoKeyStyleRemoteHierarchy \o <<" ">>, repoKeyStyleNameHash,
            <<"b">> }

HashLens == {0, 4, HashHexLen + 1}

\* what lies under backupRoot: nothing, or the repository's directory with a
\* lock and a snapshot in it
BackupRootStates == { {}, {"repoDir", "lock", "snapshot"} }

KeyInputs ==
    [repoRoot : Roots, slug : Slugs, remote : Remotes, RepoKeyStyle : Styles,
     AutoRemoteMerge : BOOLEAN, RemoteHashLen : HashLens]

\* PrintRepoKey and Backup: the key is derived from the configuration and the
\* repository
PrintRepoKey ==
    /\ Len(key.derived) < MaxDerivations
    /\ key' = [key EXCEPT !.derived =
                   Append(@, [key |-> deriveRepoKey(key.in), at |-> key.clock,
                              under |-> key.under])]
    /\ UNCHANGED <<pc, ctxDone, ret, lock, dateDirs, snaps, now, attempt, target,
                   partialSuccess, cfg, repoDir, sys, refresh, hook, cli, sel, copy,
                   hist>>

\* time passes
Elapse ==
    /\ key.clock < MaxKeyClock
    /\ key' = [key EXCEPT !.clock = @ + 1]
    /\ UNCHANGED <<pc, ctxDone, ret, lock, dateDirs, snaps, now, attempt, target,
                   partialSuccess, cfg, repoDir, sys, refresh, hook, cli, sel, copy,
                   hist>>

\* backups, rotation and the user change what lies under backupRoot
BackupRootChanges ==
    /\ \E u \in BackupRootStates \ {key.under} : key' = [key EXCEPT !.under = u]
    /\ UNCHANGED <<pc, ctxDone, ret, lock, dateDirs, snaps, now, attempt, target,
                   partialSuccess, cfg, repoDir, sys, refresh, hook, cli, sel, copy,
                   hist>>

KeyInit ==
    /\ CallsInit({<<NoDir, EmptyDisk, NoRotation, {}>>})
    /\ hook = NoHook /\ cli = NoExit /\ NoInside
    /\ \E in \in KeyInputs :
         key = [in |-> in, clock |-> 0, under |-> {}, derived |-> << >>]

KeyNext == PrintRepoKey \/ Elapse \/ BackupRootChanges

SpecKey == KeyInit /\ [][KeyNext]_vars

(* ------------------------------ properties ----------------------------- *)
\* the positions of a call between AcquireLock returning nil and the deferred
\* releaseLock: the call holds the lock
HeldPcs == {"flow", "res_mkdir", "res_reserve", "partial", "copyA", "listC", "copyE",
            "rm_partial", "write_done", "rm_reserve", "rotate", "cleanup",
            "cleanup_date", "release"}

\* Backup has returned
Returned(p) == pc[p] = "done"

\* Backup returned (result, ErrCritical) with result.PartialSuccess set
CriticalPartial(p) == ret[p] = "Critical" /\ hist[p].result /\ partialSuccess[p]

\* the snapshot directory the call's reservation returned still exists
OwnSnapshot(p) == hist[p].reserved /\ Owns(p, target[p])

\* C1 (as the specification states it): at any moment at most one Backup call
\* on the same (backupRoot, repoKey) is past Lock.Acquire and has not yet
\* released the lock.
C1_AtMostOneHolder == Cardinality({p \in Procs : pc[p] \in HeldPcs}) <= 1

\* C2 (as the specification states it): a Backup call that does not obtain the
\* lock because another call holds it, or wins it concurrently, returns
\* LockBusy.
C2_LoserReturnsLockBusy ==
    \A p \in Procs :
        Returned(p) /\ (hist[p].busy \/ hist[p].lostRace) => ret[p] = "LockBusy"

\* C3 (as the specification states it): when a Backup call that reserved a
\* snapshot has returned, exactly one of .partial and .done exists in the
\* snapshot, and .done exists iff the call returned success or Critical with
\* partialSuccess.
C3_ExactlyOneMarker ==
    \A p \in Procs :
        Returned(p) /\ hist[p].reserved =>
            LET partial == OwnSnapshot(p) /\ snaps[target[p]].partial
                done == OwnSnapshot(p) /\ snaps[target[p]].done
            IN /\ partial # done
               /\ done <=> (ret[p] = "ok" \/ CriticalPartial(p))

\* C3 (amended): when a Backup call that reserved a snapshot has returned, its
\* snapshot directory never holds .partial: the directory has been removed, or
\* it holds .done alone. If it holds .done the call returned success, Critical
\* with partialSuccess, or Interrupted after having written .done; and a call
\* that returned success or Critical with partialSuccess had written .done.
C3_NoPartialAfterReturn ==
    \A p \in Procs :
        Returned(p) /\ hist[p].reserved =>
            /\ OwnSnapshot(p) =>
                  /\ ~snaps[target[p]].partial
                  /\ snaps[target[p]].done
                  /\ \/ ret[p] = "ok"
                     \/ CriticalPartial(p)
                     \/ ret[p] = "Interrupted" /\ hist[p].wroteDone
            /\ (ret[p] = "ok" \/ CriticalPartial(p)) => hist[p].wroteDone

\* C3 witness: a call returned with an error after its reservation and its
\* snapshot directory is gone, and another returned Interrupted leaving .done
C3_Witness ==
    \E p, q \in Procs :
        /\ Returned(p) /\ hist[p].reserved /\ ret[p] = "Critical" /\ ~OwnSnapshot(p)
        /\ Returned(q) /\ ret[q] = "Interrupted" /\ OwnSnapshot(q)
        /\ snaps[target[q]].done

\* C4 (as the specification states it): if a Backup process crashes at any
\* point, no .done exists in the snapshot directory it was working on.
C4_NoDoneAfterCrash ==
    \A p \in Procs :
        pc[p] = "crashed" /\ OwnSnapshot(p) => ~snaps[target[p]].done

\* C4 (amended): if a Backup process crashes, .done exists in the snapshot
\* directory it was working on only if the crash came after the copy had
\* completed, .partial had been removed and .done had been written.
C4_DoneOnlyAfterCopy ==
    \A p \in Procs :
        pc[p] = "crashed" /\ OwnSnapshot(p) /\ snaps[target[p]].done =>
            hist[p].copied /\ hist[p].wroteDone /\ ~snaps[target[p]].partial

\* C4 witness: a process crashed in the middle of the copy; its snapshot is
\* left with .partial and .reserve
C4_Witness ==
    \E p \in Procs :
        /\ pc[p] = "crashed" /\ OwnSnapshot(p) /\ ~hist[p].copied
        /\ snaps[target[p]].partial /\ snaps[target[p]].reserve
        /\ snaps[target[p]].bytes > 0

\* C5: whenever a snapshot directory contains .reserve, the Backup call that
\* created it holds the lock (it is between Lock.Acquire and the release) or
\* its process has crashed.
C5_ReserveImpliesHolderOrCrashed ==
    \A nm \in DOMAIN snaps :
        snaps[nm].reserve /\ snaps[nm].owner \in Procs =>
            pc[snaps[nm].owner] \in HeldPcs \/ pc[snaps[nm].owner] = "crashed"

\* C5 witness: a .reserve whose creator is copying, and one whose creator crashed
C5_Witness ==
    \E nm, mm \in DOMAIN snaps :
        /\ snaps[nm].reserve /\ snaps[nm].owner \in Procs
        /\ pc[snaps[nm].owner] \in CopyPcs
        /\ snaps[mm].reserve /\ snaps[mm].owner \in Procs
        /\ pc[snaps[mm].owner] = "crashed"

C7_AtMostHundredCandidates ==
    \A p \in Procs :
        /\ attempt[p] <= MaxAttempts
        /\ hist[p].reserved => target[p].i < MaxAttempts
        /\ hist[p].exhausted =>
              /\ ~hist[p].created /\ ~hist[p].reserved
              /\ pc[p] \in {"release", "done", "crashed"}
              /\ pc[p] # "crashed" => ret[p] = "Critical"

\* C7 witness: with all 100 candidates taken the call has returned Critical
C7_Witness ==
    \E p \in Procs :
        /\ Returned(p) /\ hist[p].exhausted /\ ret[p] = "Critical"
        /\ Cardinality(DOMAIN snaps) = MaxAttempts

\* C8: a call that returns LockBusy while another call holds the lock has
\* created no .partial, no .reserve and no snapshot directory.
C8_LockBusyCreatesNothing ==
    \A p \in Procs :
        ret[p] = "LockBusy" =>
            /\ ~hist[p].created /\ ~hist[p].reserved /\ target[p] = NoTarget
            /\ \A nm \in DOMAIN snaps : snaps[nm].owner # p

\* C8 witness: B returned LockBusy while A, holding the lock, is copying
C8_Witness ==
    \E a, b \in Procs :
        /\ Returned(b) /\ ret[b] = "LockBusy" /\ hist[b].busy
        /\ pc[a] \in CopyPcs /\ OwnSnapshot(a)

\* C9 (as the specification states it): a Backup call whose cancellation token
\* fires in the middle of the copy, and that meets no copy error, returns
\* Interrupted, and the snapshot tree it created no longer exists.
C9_CancelInCopyInterrupted ==
    \A p \in Procs :
        Returned(p) /\ hist[p].cancelInCopy /\ ~partialSuccess[p] =>
            ret[p] = "Interrupted" /\ ~OwnSnapshot(p)

\* C10: a Backup call that returns Interrupted has not run rotation: it has
\* deleted no pre-existing snapshot.
C10_InterruptedNoRotation ==
    \A p \in Procs :
        ret[p] = "Interrupted" => ~hist[p].rotated /\ hist[p].deleted = {}

\* C10 witness: a call returned Interrupted after finalizing its snapshot, in a
\* run whose rotation rules would have removed an older snapshot
C10_Witness ==
    \E p \in Procs :
        /\ Returned(p) /\ ret[p] = "Interrupted" /\ hist[p].wroteDone
        /\ OwnSnapshot(p)
        /\ RotationKills(snaps, cfg) # {}


\* a step of the call failed after its reservation returned: Backup returned
\* and .done was never written
FailedAfterReserve(p) == Returned(p) /\ hist[p].reserved /\ ~hist[p].wroteDone

\* C11: when a step fails after the reservation (the Phase A copy, the write of
\* .partial, the write of .done), then on return from Backup the reserved
\* snapshot directory is gone, and so is its parent date directory unless it
\* holds other entries.
C11_FailureRemovesReservation ==
    [][\A p \in Procs :
         (~Returned(p) /\ FailedAfterReserve(p)') =>
             /\ ~Owns(p, target[p])'
             /\ DateOf(target[p].n) \in dateDirs'
                    => ~DateDirEmpty(snaps', DateOf(target[p].n))]_vars

\* C11 happens: a call failed after its reservation with ErrCritical and the
\* date directory it had created is gone
C11_Witness ==
    \E p \in Procs :
        /\ FailedAfterReserve(p) /\ ret[p] = "Critical" /\ ~ctxDone[p]
        /\ hist[p].created /\ DateOf(target[p].n) \notin dateDirs

\* C12 (as the specification states it): when paths fail to copy in Phase E,
\* Backup still completes the snapshot: .done is written, the snapshot is
\* retained, and Backup returns ErrCritical with result.PartialSuccess true.
C12_PhaseEFailureKeepsSnapshot ==
    \A p \in Procs :
        (Returned(p) /\ hist[p].phaseE) =>
            /\ hist[p].wroteDone /\ OwnSnapshot(p)
            /\ CriticalPartial(p)

\* the positions of a call inside AcquireLock
AcquirePcs == {"acq_mkdir", "acq_write", "acq_validate", "acq_remove", "acq_mkdir2"}

\* C15: a Backup call with dryRun set writes nothing to the filesystem (no
\* backup or repository directory, snapshot, marker or lock is created or
\* removed) and acquires no lock.
C15_DryRunWritesNothing ==
    [][cfg.DryRun =>
         /\ UNCHANGED <<repoDir, lock, dateDirs, snaps>>
         /\ \A p \in Procs : pc'[p] \notin (AcquirePcs \cup HeldPcs)]_vars

\* C15 happens: a dry run returned its result where the repository directory
\* holds snapshots the rotation rules mark dead
C15_Witness ==
    \E p \in Procs :
        /\ cfg.DryRun /\ Returned(p) /\ ret[p] = "ok" /\ hist[p].result
        /\ hist[p].dryRuns = 1 /\ AllKilled(hist[p].killed) # {}

\* rotateRepo ran inside the call
RotationRan(p) == hist[p].rotated \/ (hist[p].dryRuns > 0 /\ repoDir)

\* C19 (as the specification states it): no error or panic raised inside
\* rotation changes the result of the enclosing Backup call: the call returns
\* what it would have returned had rotation succeeded.
C19_RotationNeverChangesResult ==
    \A p \in Procs :
        (Returned(p) /\ RotationRan(p)) =>
            /\ ret[p] = AfterRotation(partialSuccess[p], "none")
            /\ hist[p].result

\* the <timeDir> directories of S that hold .done
DoneOf(S) == {nm \in DOMAIN S : S[nm].done}

\* limitKB as the specification computes it
LimitKB(c) == c.MaxTotalGBPerRepo * 1048576 + c.SizeMarginMB * 1024

Min(a, b) == IF a <= b THEN a ELSE b

Max(a, b) == IF a >= b THEN a ELSE b

\* this step is a rotation that deletes
RotatedStep(p) == ~hist[p].rotated /\ hist'[p].rotated

\* this step is a dry-run rotation
DryRunStep(p) == hist'[p].dryRuns = hist[p].dryRuns + 1

\* this step is a status scan
ScanStep(p) == hist'[p].scans = hist[p].scans + 1

\* the finished snapshots of S the size rule receives alive
AliveForSize(S, kb) == DoneOf(S) \ (kb.age \cup kb.count)

\* every snapshot the size rule killed was the oldest one alive at a moment
\* when the sizes of the finished snapshots alive summed to more than limit
SizeKillsNeeded(S, kb, limit) ==
    \A x \in kb.size :
        SizeKB(S, {y \in AliveForSize(S, kb) : Key(y) >= Key(x)}) > limit

\* C13: rotation, size accounting and the status listing take only snapshot
\* directories that contain .done; a directory without .done is never counted
\* towards keepCount or the size and is never deleted by rotation.
C13_OnlyDoneSnapshotsCount ==
    [][\A p \in Procs :
         /\ (RotatedStep(p) \/ DryRunStep(p)) =>
               LET kb == hist'[p].killed IN
               /\ AllKilled(kb) \subseteq DoneOf(snaps)
               /\ \A nm \in (DOMAIN snaps) \ DoneOf(snaps) :
                      nm \in DOMAIN snaps' /\ snaps'[nm] = snaps[nm]
               /\ kb.count # {} =>
                      Cardinality(DoneOf(snaps) \ kb.age) - Cardinality(kb.count)
                          = cfg.KeepCount
               /\ SizeKillsNeeded(snaps, kb, LimitKB(cfg))
         /\ ScanStep(p) =>
               hist'[p].status = [SnapshotCount |-> Cardinality(DoneOf(snaps)),
                                  TotalSizeKB |-> SizeKB(snaps, DoneOf(snaps))]]_vars

\* C13 happens: the count rule and the size rule deleted snapshots in a
\* repository directory that also holds a directory without .done
C13_Witness ==
    \E p \in Procs :
        /\ hist[p].rotated /\ hist[p].killed.count # {} /\ hist[p].killed.size # {}
        /\ \E nm \in DOMAIN snaps : ~snaps[nm].done /\ snaps[nm].bytes > 0

\* C14: rotation in dry-run mode, run any number of times for any
\* configuration and any set of snapshots, deletes nothing: the disk after each
\* run equals the disk before it.
C14_DryRunRotationDeletesNothing ==
    [][\A p \in Procs : DryRunStep(p) => UNCHANGED <<snaps, dateDirs>>]_vars

\* C14 happens: dry-run rotation ran repeatedly where the rules mark
\* snapshots dead
C14_Witness ==
    \E p \in Procs :
        /\ hist[p].dryRuns = MaxDryRuns /\ ~hist[p].rotated
        /\ hist[p].killed.age # {} /\ hist[p].killed.count # {}

\* C16 (as the specification states it): after rotation with keepCount = k > 0
\* in which the age rule killed nothing, the number of surviving .done
\* snapshots equals min(pre-count, k).
C16_SurvivorsAreMinOfCountAndK ==
    [][\A p \in Procs :
         (RotatedStep(p) /\ cfg.KeepCount > 0 /\ hist'[p].killed.age = {}) =>
             Cardinality(DoneOf(snaps')) =
                 Min(Cardinality(DoneOf(snaps)), cfg.KeepCount)]_vars

\* C16 (amended): after rotation with keepCount = k > 0 in which neither the
\* age rule nor the size rule killed anything, the number of surviving .done
\* snapshots equals min(pre-count, k); when the size rule kills, fewer survive.
C16_SurvivorsWithoutAgeAndSizeKills ==
    [][\A p \in Procs :
         (RotatedStep(p) /\ cfg.KeepCount > 0 /\ hist'[p].killed.age = {}) =>
             IF hist'[p].killed.size = {}
             THEN Cardinality(DoneOf(snaps')) =
                      Min(Cardinality(DoneOf(snaps)), cfg.KeepCount)
             ELSE Cardinality(DoneOf(snaps')) <
                      Min(Cardinality(DoneOf(snaps)), cfg.KeepCount)]_vars

\* C16 happens: the count rule alone deleted snapshots
C16_Witness ==
    \E p \in Procs :
        /\ hist[p].rotated /\ cfg.KeepCount > 0
        /\ hist[p].killed.age = {} /\ hist[p].killed.size = {}
        /\ hist[p].killed.count # {}
        /\ Cardinality(DoneOf(snaps)) = cfg.KeepCount

\* C17: rotation applies the age rule, then the count rule, then the size
\* rule to the snapshots still alive; the count and size rules kill
\* oldest-first in ascending timeDir order, so every snapshot they remove is
\* older than every survivor. With two .done snapshots, one older than
\* keepDays = 1, keepCount = 1 and noSize = true, exactly one survives, the
\* younger.
C17_OldestFirst ==
    [][\A p \in Procs :
         RotatedStep(p) =>
             LET kb == hist'[p].killed IN
             /\ \A x \in kb.count \cup kb.size, y \in DoneOf(snaps') : Key(x) < Key(y)
             /\ kb.count # {} => Cardinality(DoneOf(snaps) \ kb.age) > cfg.KeepCount
             /\ kb.size \subseteq DoneOf(snaps) \ (kb.age \cup kb.count)
             /\ (cfg.KeepDays = 1 /\ cfg.KeepCount = 1 /\ cfg.NoSize) =>
                    \A x, y \in DoneOf(snaps) :
                        (DoneOf(snaps) = {x, y} /\ snaps[x].ageH > 24
                           /\ snaps[y].ageH <= 24) => DoneOf(snaps') = {y}]_vars

\* C17 happens: all three rules deleted a snapshot and one survived
C17_Witness ==
    \E p \in Procs :
        /\ hist[p].rotated /\ DoneOf(snaps) # {}
        /\ hist[p].killed.age # {} /\ hist[p].killed.count # {}
        /\ hist[p].killed.size # {}

\* C18 (as the specification states it): when maxTotalGB > 0 and noSize is
\* false, after rotation the summed size in KiB of the surviving .done
\* snapshots is at most limitKB = maxTotalGB * 1,048,576 + sizeMarginMB * 1024,
\* and the size rule removes a snapshot only while the running total exceeds
\* limitKB.
C18_SurvivorsWithinLimit ==
    [][\A p \in Procs :
         (RotatedStep(p) /\ cfg.MaxTotalGBPerRepo > 0 /\ ~cfg.NoSize) =>
             /\ SizeKB(snaps', DoneOf(snaps')) <= LimitKB(cfg)
             /\ SizeKillsNeeded(snaps, hist'[p].killed, LimitKB(cfg))]_vars

\* C18 (amended): the summed size of the survivors is at most limitKB when
\* limitKB >= 0; when limitKB < 0 no .done snapshot survives. The size rule
\* removes a snapshot only while the running total exceeds limitKB.
C18_SurvivorsWithinLimitOrNone ==
    [][\A p \in Procs :
         (RotatedStep(p) /\ cfg.MaxTotalGBPerRepo > 0 /\ ~cfg.NoSize) =>
             /\ SizeKB(snaps', DoneOf(snaps')) <= Max(LimitKB(cfg), 0)
             /\ LimitKB(cfg) < 0 => DoneOf(snaps') = {}
             /\ SizeKillsNeeded(snaps, hist'[p].killed, LimitKB(cfg))]_vars

\* C18 happens: with a negative margin the size rule deleted a snapshot and
\* another one survived
C18_Witness ==
    \E p \in Procs :
        /\ hist[p].rotated /\ cfg.MaxTotalGBPerRepo > 0 /\ ~cfg.NoSize
        /\ cfg.SizeMarginMB < 0
        /\ hist[p].killed.size # {} /\ DoneOf(snaps) # {}

\* C20: deleting a snapshot removes exactly its timeDir tree, and removes the
\* parent dateDir if and only if that dateDir has become empty; the other
\* snapshots and their dateDirs are left untouched.
C20_RemovesExactlyOneSnapshot ==
    [][\A p \in Procs : \A nm \in hist'[p].removed \ hist[p].removed :
         /\ DOMAIN snaps' = (DOMAIN snaps) \ {nm}
         /\ \A x \in DOMAIN snaps' : snaps'[x] = snaps[x]
         /\ dateDirs' \subseteq dateDirs
         /\ dateDirs \ {DateOf(nm.n)} \subseteq dateDirs'
         /\ DateOf(nm.n) \in dateDirs' <=>
                \E x \in DOMAIN snaps' : DateOf(x.n) = DateOf(nm.n)]_vars

\* C20 happens: a snapshot was deleted whose dateDir held another directory,
\* beside a second dateDir
C20_Witness ==
    \E p \in Procs : \E nm \in hist[p].removed :
        /\ nm \notin DOMAIN snaps
        /\ DateOf(nm.n) \in dateDirs
        /\ dateDirs # {DateOf(nm.n)}


(* ------------------------- lock left behind ---------------------------- *)
\* the record in the lock directory was left by an earlier process
LeftBehind == lock.exists /\ lock.owner = NoProc /\ lock.info.present

\* the call is about to validate the record left behind
Validating(p) == pc[p] = "acq_validate" /\ LeftBehind

\* the call holds the lock: AcquireLock returned nil for a directory it made
Holds(p) == pc[p] = "flow" /\ lock.exists /\ lock.owner = p /\ lock.info.present
            /\ lock.info.pid = p

ValidatingStartId(p) ==
    /\ Validating(p) /\ lock.info.age <= MaxAgeH
    /\ lock.info.host = LocalHost /\ lock.info.startId # ""

\* C23 as stated: when the current start id of the recorded pid differs from
\* the recorded one or cannot be obtained, the lock is stale
C23_MismatchOrUnobtainableIsStale ==
    [][(/\ ValidatingStartId("A")
        /\ \/ ~getProcessStartID(lock.info.pid)[2]
           \/ getProcessStartID(lock.info.pid)[1] # lock.info.startId)
       => pc'["A"] = "acq_remove"]_vars

\* C23: when the current start id of the recorded pid can be obtained and
\* differs from the recorded one, the lock is stale although a process has the
\* pid; when it cannot be obtained, the lock is stale exactly if no process has
\* the pid
C23_MismatchIsStaleUnobtainableFallsBack ==
    [][ValidatingStartId("A")
       => LET id == getProcessStartID(lock.info.pid)
              stale == pc'["A"] = "acq_remove"
          IN /\ id[2] /\ id[1] # lock.info.startId => stale
             /\ ~id[2] => (stale <=> ~isProcessRunning(lock.info.pid))]_vars

\* a record classified as stale because a later process has its pid
C23_Witness ==
    /\ pc["A"] = "acq_remove" /\ LeftBehind
    /\ lock.info.age <= MaxAgeH /\ lock.info.host = LocalHost
    /\ lock.info.startId # "" /\ sys.foreign = "reused"
    /\ getProcessStartID(lock.info.pid)[2]


(* --------------------------- lock refresh ------------------------------ *)
\* the call has acquired the lock, has not begun to release it, and the lock
\* directory is the one it made
HoldsLock(p) == Running(p) /\ pc[p] \in {"flow", "release"} /\ lock.exists /\ lock.owner = p

\* C24: once a Backup has begun to release its lock (its stopRefresh has run),
\* its refresh goroutine neither reads <lockDir>/info successfully nor changes
\* the lock directory
C24_NoRefreshAfterRelease ==
    [][\A p \in Procs :
         (refresh[p].stop /\ refresh'[p] # refresh[p])
         => (refresh'[p].st # "read" /\ lock' = lock)]_vars

\* C25: while a Backup holds the lock, a concurrent AcquireLock that validates
\* the lock directory finds it valid
C25_LiveHolderIsNeverStale ==
    \A p \in Procs, q \in Procs :
        (HoldsLock(p) /\ pc[q] = "acq_validate") => validateLockFile


(* ---------------------------- exit status ------------------------------ *)
\* the categories with an exit status of their own that the error belongs to
Categories(err) == {c \in {ErrUsage, ErrLockBusy, ErrInterrupted} : errorsIs(err, c)}

\* C29: the exit status depends on the category of the returned error only:
\* nil gives 0, Usage 2, LockBusy 76, Interrupted 130, every other error
\* (Critical, or no category at all) 1
C29_ExitStatusByCategory ==
    cli.returned =>
        /\ cli.err = NilError => cli.code = exitSuccess
        /\ cli.err # NilError =>
              /\ Categories(cli.err) = {ErrUsage} => cli.code = exitUsageError
              /\ Categories(cli.err) = {ErrLockBusy} => cli.code = exitLockBusy
              /\ Categories(cli.err) = {ErrInterrupted} => cli.code = exitInterrupted
              /\ Categories(cli.err) = {} => cli.code = exitCriticalError
              /\ cli.code \in {exitUsageError, exitLockBusy, exitInterrupted,
                                exitCriticalError}

\* the process has exited with 76 for a lock-busy error wrapped in another
C29_Witness ==
    /\ cli.returned /\ cli.code = exitLockBusy
    /\ Len(cli.err) > 1 /\ cli.err[1] # ErrLockBusy


(* ------------------------------ git hooks ------------------------------ *)
\* the stamp parses as unix seconds and is less than 60 s before t
Unexpired(stamp, t) == stamp.kind = "time" /\ t - stamp.ts * TicksPerSecond < TimeoutTicks

\* this step is a hook invocation; it is a post-rewrite one; it is one for a
\* rebase
HookStep == hook'.runs = hook.runs + 1
PostRewriteStep == HookStep /\ hook'.last.hook = "post-rewrite"
RebaseStep == PostRewriteStep /\ hook'.last.rebase

\* the invocation before this step was one for a rebase that completed a backup
FirstCompleted == hook.last.rebase /\ hook.last.called /\ hook.last.err = NilError

\* the error is one after which runPostRewriteBackup leaves the stamp alone
LockBusyOrInterrupted(err) ==
    \/ errorsIs(err, ErrLockBusy) \/ errorsIs(err, ErrInterrupted)
    \/ errorsIs(err, ContextCanceled)

\* C26 as stated: a rebase invocation (that gets as far as the stamp) starts a
\* backup iff no unexpired stamp exists, and of two rebase invocations less
\* than 60 s apart, the first of which completed a backup, the second makes no
\* snapshot
C26_OneSnapshotWithinSixtySeconds ==
    [][RebaseStep =>
         /\ hook'.last.eligible =>
               (hook'.last.called <=> ~Unexpired(hook.stamp, hook.clock))
         /\ (FirstCompleted /\ hook.clock - hook.last.at < TimeoutTicks)
               => hook'.snapshots = hook.snapshots]_vars

\* C26: a rebase invocation that passed preflight, is not cancelled, not a dry
\* run and finds no rebase in progress starts a backup iff it reads no
\* unexpired stamp (a stamp it cannot read does not suppress); no other rebase
\* invocation starts one. Of two rebase invocations, the first of which
\* completed a backup and wrote the stamp, the second makes no snapshot if it
\* can read the stamp and comes at most 59 s after the first (the stamp holds
\* whole seconds)
C26_DebounceByWholeSeconds ==
    [][RebaseStep =>
         /\ (hook'.last.eligible /\ hook'.last.readable) =>
               (hook'.last.called <=> ~Unexpired(hook.stamp, hook.clock))
         /\ (hook'.last.eligible /\ ~hook'.last.readable) => hook'.last.called
         /\ ~hook'.last.eligible => ~hook'.last.called
         /\ (/\ FirstCompleted /\ hook.last.wrote /\ hook'.last.readable
             /\ hook.clock - hook.last.at <= TimeoutTicks - TicksPerSecond)
               => hook'.snapshots = hook.snapshots]_vars

\* two rebase invocations 59 s apart: the first completed a backup and wrote
\* the stamp, the second was suppressed by it, and there is one snapshot
C26_Witness ==
    /\ hook.runs = 2 /\ hook.snapshots = 1
    /\ hook.prev.completed /\ hook.prev.wrote
    /\ hook.last.rebase /\ hook.last.eligible /\ hook.last.debounce
    /\ hook.last.at - hook.prev.at = TimeoutTicks - TicksPerSecond

C28_HooksExitZero ==
    hook.runs > 0 => (/\ hook.last.hook \in {"post-commit", "post-merge", "post-rewrite"}
                      /\ hook.last.exit = exitSuccess)

\* a post-commit hook whose Backup returned LockBusy has exited with 0
C28_Witness ==
    /\ hook.last.hook = "post-commit" /\ hook.last.called
    /\ errorsIs(hook.last.err, ErrLockBusy) /\ hook.last.exit = exitSuccess

C36_UnwrittenLockIsLeftAlone ==
    \A p \in Procs :
        hist[p].found = "unwritten" => pc[p] \notin {"acq_mkdir2", "acq_write"}

\* C37 (as the specification states it): when two acquirers have found the
\* same stale lock, the os.RemoveAll of one does not delete a lock directory
\* the other has made, and the one that makes the directory last does not
\* become a holder beside the other.
C37_TakeoverOfStaleLockIsExclusive ==
    [][\A p \in Procs :
          hist[p].found = "left" =>
            /\ pc[p] = "acq_remove" /\ pc'[p] = "acq_mkdir2" =>
                  ~(lock.exists /\ lock.owner \in Procs \ {p})
            /\ pc[p] = "acq_write" /\ pc'[p] = "flow" /\ lock.owner = p =>
                  \A q \in Procs \ {p} : pc[q] \notin HeldPcs]_vars

\* C38 (as the specification states it): the release at the end of a Backup
\* does not remove a lock directory another call has made, and a RefreshLock
\* of the call's goroutine neither empties nor rewrites the info file of a
\* directory another call has made.
C38_ReleaseAndRefreshTouchOwnLockOnly ==
    [][\A p \in Procs :
          LET others == lock.exists /\ lock.owner \in Procs \ {p}
          IN  /\ pc[p] = "release" /\ pc'[p] = "done" => ~others
              /\ (refresh[p].st \in {"read", "trunc"} /\ refresh'[p] # refresh[p]
                    /\ lock' # lock) => ~others]_vars

\* the call has returned and had acquired the lock
ReturnedLock(p) == Returned(p) /\ hist[p].acquired

\* C40: the step by which a Backup that acquired the lock returns leaves no
\* lock directory, whether it returns success, Critical or Interrupted; and
\* once it has returned, a call that has not yet tried to make the lock
\* directory finds none, so that its os.Mkdir succeeds and it is not refused
C40_ReturnLeavesNoLock ==
    /\ [][\A p \in Procs :
            (pc[p] \in HeldPcs /\ pc'[p] = "done") =>
                /\ ~lock'.exists
                /\ ret'[p] \in {"ok", "Critical", "Interrupted"}]_vars
    /\ [](\A p \in Procs, q \in Procs :
            (ReturnedLock(p) /\ pc[q] \in {"start", "acq_mkdir"}) => ~lock.exists)

\* a call that held the lock has returned Interrupted, and the other call has
\* yet to begin
C40_Witness ==
    \E p \in Procs, q \in Procs :
        /\ ReturnedLock(p) /\ ret[p] = "Interrupted"
        /\ pc[q] = "start" /\ ~lock.exists /\ repoDir

\* C39 (as the specification states it): whenever Backup returns success, the
\* snapshot directory it finalized still exists and carries .done, whatever
\* KeepDays, KeepCount, MaxTotalGBPerRepo and SizeMarginMB are.
C39_OwnSnapshotSurvivesRotation ==
    \A p \in Procs :
        (Returned(p) /\ ret[p] = "ok" /\ hist[p].wroteDone) =>
            (OwnSnapshot(p) /\ snaps[target[p]].done)

(* ------------- Phases B-D: the candidate paths that are kept ------------ *)
\* the characters of the patterns and the paths, in code-point order
Runes == <<"\n", "\r", " ", "#", "*", "-", ".", "/", "?", "[", "\\", "]", "^",
           "a", "b", "d", "e", "g", "i", "k", "l", "m", "n", "o", "p", "s",
           "t", "u", "x">>
Rune(ch) == CHOOSE i \in 1 .. Len(Runes) : Runes[i] = ch

\* strings.ReplaceAll(s, old, new) for a one-character old
RECURSIVE ReplaceAll(_, _, _)
ReplaceAll(s, old, new) ==
    IF s = << >> THEN << >>
    ELSE (IF Head(s) = old THEN new ELSE <<Head(s)>>) \o ReplaceAll(Tail(s), old, new)

HasPrefix(s, prefix) ==
    Len(s) >= Len(prefix) /\ SubSeq(s, 1, Len(prefix)) = prefix

\* strings.ContainsAny(s, chars), strings.Contains(s, "/")
ContainsAny(s, chars) == \E i \in 1 .. Len(s) : s[i] \in chars

BadPattern == [bad |-> TRUE, ranges |-> {}, rest |-> << >>]

\* path.getEsc: one character of a class, after an optional backslash; "-" and
\* "]" cannot stand there and the class cannot end with it
getEsc(chunk) ==
    IF chunk = << >> \/ Head(chunk) \in {"-", "]"} THEN [bad |-> TRUE]
    ELSE LET c == IF Head(chunk) = "\\" THEN Tail(chunk) ELSE chunk
         IN  IF c = << >> \/ Tail(c) = << >> THEN [bad |-> TRUE]
             ELSE [bad |-> FALSE, r |-> Head(c), rest |-> Tail(c)]

\* path.matchChunk, case '[': the ranges up to the closing "]", which closes
\* the class only after at least one range
RECURSIVE classRanges(_, _)
classRanges(chunk, ranges) ==
    IF chunk # << >> /\ Head(chunk) = "]" /\ ranges # {}
    THEN [bad |-> FALSE, ranges |-> ranges, rest |-> Tail(chunk)]
    ELSE LET lo == getEsc(chunk)
         IN  IF lo.bad THEN BadPattern
             ELSE IF Head(lo.rest) = "-"
             THEN LET hi == getEsc(Tail(lo.rest))
                  IN  IF hi.bad THEN BadPattern
                      ELSE classRanges(hi.rest, ranges \cup {<<lo.r, hi.r>>})
             ELSE classRanges(lo.rest, ranges \cup {<<lo.r, lo.r>>})

\* path.Match(pattern, name), the boolean it returns (false for a malformed
\* pattern, whose error shouldSkip drops): "*" is any run of characters other
\* than "/", "?" one character other than "/", "[...]" one character of the
\* class ("[^...]" one outside it), "\c" the character c
RECURSIVE Match(_, _)
Match(pattern, name) ==
    IF pattern = << >> THEN name = << >>
    ELSE LET h == Head(pattern)
             t == Tail(pattern)
         IN  IF h = "*"
             THEN \E k \in 0 .. Len(name) :
                      /\ \A j \in 1 .. k : name[j] # "/"
                      /\ Match(t, SubSeq(name, k + 1, Len(name)))
             ELSE IF h = "?"
             THEN name # << >> /\ Head(name) # "/" /\ Match(t, Tail(name))
             ELSE IF h = "["
             THEN LET negated == t # << >> /\ Head(t) = "^"
                      c == classRanges(IF negated THEN Tail(t) ELSE t, {})
                  IN  /\ ~c.bad
                      /\ name # << >>
                      /\ (\E r \in c.ranges :
                              /\ Rune(r[1]) <= Rune(Head(name))
                              /\ Rune(Head(name)) <= Rune(r[2])) # negated
                      /\ Match(c.rest, Tail(name))
             ELSE IF h = "\\"
             THEN t # << >> /\ name # << >> /\ Head(name) = Head(t)
                    /\ Match(Tail(t), Tail(name))
             ELSE name # << >> /\ Head(name) = h /\ Match(t, Tail(name))

\* the <repoRoot>/.devbackignore of the repository
NoIgnoreFile == [kind |-> "missing", data |-> << >>]
UnreadableIgnoreFile == [kind |-> "unreadable", data |-> << >>]
IgnoreFile(data) == [kind |-> "text", data |-> data]

\* readDevbackIgnore, one line: "\r" removed, spaces trimmed, one trailing "/"
\* stripped; empty lines and "#" lines give no pattern
ignoreLine(raw) ==
    LET line == TrimSpace(ReplaceAll(raw, "\r", << >>))
    IN  IF line = << >> \/ Head(line) = "#" THEN << >>
        ELSE <<TrimSuffix(line, <<"/">>)>>

RECURSIVE ignoreLines(_)
ignoreLines(lines) ==
    IF lines = << >> THEN << >>
    ELSE ignoreLine(Head(lines)) \o ignoreLines(Tail(lines))

\* readDevbackIgnore: the patterns, in the order of the file; none for a file
\* that is missing (err nil) or cannot be read (err set)
readDevbackIgnore(file) ==
    IF file.kind = "missing" THEN [excludes |-> << >>, err |-> FALSE]
    ELSE IF file.kind = "unreadable" THEN [excludes |-> << >>, err |-> TRUE]
    ELSE [excludes |-> ignoreLines(Split(file.data, "\n")), err |-> FALSE]

\* shouldSkip, the body of its loop: does the exclude ex match the path p
excludeMatches(p, ex) ==
    LET normalizedPath == ReplaceAll(p, "\\", <<"/">>)
        pattern == ReplaceAll(ex, "\\", <<"/">>)
        hasMeta == ContainsAny(pattern, {"*", "?", "["})
        hasSlash == ContainsAny(pattern, {"/"})
    IN  IF hasMeta
        THEN IF hasSlash THEN Match(pattern, normalizedPath)
             ELSE Match(pattern, Base(normalizedPath))
        ELSE \/ normalizedPath = pattern
             \/ HasPrefix(normalizedPath, pattern \o <<"/">>)

\* shouldSkip(p, excludes): the first exclude that matches, if any
shouldSkip(p, excludes) ==
    IF \E i \in 1 .. Len(excludes) : excludeMatches(p, excludes[i])
    THEN [skip |-> TRUE,
          ex |-> excludes[CHOOSE i \in 1 .. Len(excludes) :
                              /\ excludeMatches(p, excludes[i])
                              /\ \A j \in 1 .. (i - 1) : ~excludeMatches(p, excludes[j])]]
    ELSE [skip |-> FALSE, ex |-> << >>]

\* copyRepoSnapshot, planRepoSnapshot: keep, the candidates that are not skipped
RECURSIVE keepOf(_, _)
keepOf(allPaths, excludes) ==
    IF allPaths = << >> THEN << >>
    ELSE (IF shouldSkip(Head(allPaths), excludes).skip THEN << >>
          ELSE <<Head(allPaths)>>) \o keepOf(Tail(allPaths), excludes)

\* words of the patterns and paths
Wbuild == <<"b", "u", "i", "l", "d">>
Wlogs == <<"l", "o", "g", "s">>
WappLog == <<"a", "p", "p", ".", "l", "o", "g">>
WnotesTmp == <<"n", "o", "t", "e", "s", ".", "t", "m", "p">>
WkeepTxt == <<"k", "e", "e", "p", ".", "t", "x", "t">>
StarTmp == <<"*", ".", "t", "m", "p">>
StarLog == <<"*", ".", "l", "o", "g">>
Sl == <<"/">>
Nl == <<"\n">>
Bs == <<"\\">>

\* candidate paths as git ls-files lists them, relative to the repository root
CandidatePaths ==
    { Wbuild, Wbuild \o Sl \o <<"x">>, Wbuild \o <<"x">>, <<"x">> \o Sl \o Wbuild,
      Wbuild \o Sl \o <<"x">> \o Sl \o WappLog,
      Wlogs \o Sl \o WappLog, WnotesTmp, WkeepTxt,
      Wlogs \o Sl \o WnotesTmp, Wlogs \o Sl \o <<"x">> \o Sl \o WappLog,
      Wbuild \o Bs \o <<"x">>, <<"a", "*">>, <<"b">> }

\* the candidate list of scenario S7
S7Candidates == <<Wlogs \o Sl \o WappLog, WnotesTmp, WkeepTxt>>

\* the listings: up to MaxCandidates paths in either order, and S7's
MaxCandidates == 2
CandidateLists ==
    {<< >>, S7Candidates}
      \cup { <<p>> : p \in CandidatePaths }
      \cup { l \in { <<p, q>> : p \in CandidatePaths, q \in CandidatePaths } : l[1] # l[2] }

\* contents of .devbackignore
S7Patterns == StarTmp \o Nl \o Wlogs \o Sl \o StarLog \o Nl
IgnoreFiles ==
    { NoIgnoreFile, UnreadableIgnoreFile,
      IgnoreFile(<< >>),
      IgnoreFile(Wbuild \o Sl \o Nl),
      IgnoreFile(Wbuild \o Sl \o Sl \o Nl),
      IgnoreFile(Wbuild),
      IgnoreFile(<<"#", " ">> \o Wbuild \o <<"\r", "\n", " ">> \o Wlogs \o <<" ", "\r", "\n">>),
      IgnoreFile(S7Patterns),
      IgnoreFile(Wlogs \o Sl \o StarLog),
      IgnoreFile(Wlogs \o Sl \o <<"?">> \o Sl \o StarLog),
      IgnoreFile(<<"[", "a", "-", "k", "]", "*">> \o Nl \o Sl),
      IgnoreFile(<<"[", "^", "a", "-", "k", "]", "*">>),
      IgnoreFile(<<"b", "[">>),
      IgnoreFile(Wbuild \o Bs \o <<"x">>),
      IgnoreFile(<<"a">> \o Bs \o <<"*">>),
      IgnoreFile(Wlogs \o Bs \o StarLog) }

\* a repository before its candidates are selected
SkipInit ==
    /\ CallsInit({<<NoDir, EmptyDisk, NoRotation, {}>>})
    /\ hook = NoHook /\ cli = NoExit /\ key = NoKey /\ copy = NoCopy
    /\ \E file \in IgnoreFiles, allPaths \in CandidateLists, listErr \in BOOLEAN :
         sel = [st |-> "repo", file |-> file, allPaths |-> allPaths,
                listErr |-> listErr, excludes |-> << >>, warned |-> FALSE,
                keep |-> << >>]

\* Phases B-D as copyRepoSnapshot and planRepoSnapshot run them: readDevbackIgnore
\* (an error is a warning and leaves no excludes), ListIgnoredUntracked (an
\* error ends the call), keep
selectPaths(st) ==
    LET read == readDevbackIgnore(sel.file)
    IN  IF sel.listErr
        THEN [sel EXCEPT !.st = "Critical", !.excludes = read.excludes,
                         !.warned = read.err]
        ELSE [sel EXCEPT !.st = st, !.excludes = read.excludes,
                         !.warned = read.err,
                         !.keep = keepOf(sel.allPaths, read.excludes)]

\* copyRepoSnapshot up to the call of copySelectedFiles(keep)
CopyRepoSnapshotSelects ==
    /\ sel.st = "repo"
    /\ sel' = selectPaths("copy")
    /\ UNCHANGED <<pc, ctxDone, ret, lock, dateDirs, snaps, now, attempt, target,
                   partialSuccess, cfg, repoDir, sys, refresh, hook, cli, key,
                   copy, hist>>

\* planRepoSnapshot, the dry run's count of the paths it would copy
PlanRepoSnapshot ==
    /\ sel.st = "repo"
    /\ sel' = selectPaths("plan")
    /\ UNCHANGED <<pc, ctxDone, ret, lock, dateDirs, snaps, now, attempt, target,
                   partialSuccess, cfg, repoDir, sys, refresh, hook, cli, key,
                   copy, hist>>

SkipNext == CopyRepoSnapshotSelects \/ PlanRepoSnapshot

SpecSkip == SkipInit /\ [][SkipNext]_vars

Selected == sel.st \in {"copy", "plan"}
IsKept(p) == \E i \in 1 .. Len(sel.keep) : sel.keep[i] = p

\* the claim's reading of "pattern pat matches path p"
StatedMatch(pat, p) ==
    IF ContainsAny(pat, {"*", "?", "["})
    THEN IF ContainsAny(pat, {"/"}) THEN Match(pat, p) ELSE Match(pat, Base(p))
    ELSE p = pat \/ HasPrefix(p, pat \o <<"/">>)

KeptIffNoStatedMatch ==
    \A i \in 1 .. Len(sel.allPaths) :
        IsKept(sel.allPaths[i]) <=>
            ~\E j \in 1 .. Len(sel.excludes) :
                 StatedMatch(sel.excludes[j], sel.allPaths[i])

NoBackslash ==
    /\ \A i \in 1 .. Len(sel.allPaths) : ~ContainsAny(sel.allPaths[i], {"\\"})
    /\ \A j \in 1 .. Len(sel.excludes) : ~ContainsAny(sel.excludes[j], {"\\"})

\* C31: once Phases B-D have run, a candidate path is kept for copying if and
\* only if no exclude pattern matches it, where a literal pattern matches the
\* paths equal to it or under it, a glob without "/" is matched against the
\* basename and a glob with "/" against the whole path.
C31_KeptIffNoPatternMatches == Selected => KeptIffNoStatedMatch

\* for patterns and paths without a backslash the selection is the stated one:
\* "build/" excludes exactly build and the paths under build/, and S7 keeps
\* only keep.txt
SelectionWithoutBackslash ==
    /\ (Selected /\ NoBackslash) => KeptIffNoStatedMatch
    /\ (Selected /\ sel.file = IgnoreFile(Wbuild \o Sl \o Nl)) =>
          \A i \in 1 .. Len(sel.allPaths) :
              LET p == sel.allPaths[i]
              IN  ~IsKept(p) <=> (p = Wbuild \/ HasPrefix(p, Wbuild \o Sl)
                                  \/ HasPrefix(p, Wbuild \o Bs))
    /\ (Selected /\ sel.file = IgnoreFile(S7Patterns) /\ sel.allPaths = S7Candidates) =>
          sel.keep = <<WkeepTxt>>

S7Selected ==
    Selected /\ sel.file = IgnoreFile(S7Patterns) /\ sel.allPaths = S7Candidates

(* ------------- copyRepoSnapshot: Phase A to Finalize, Phase E ----------- *)
NumCPU == 1                   \* runtime.NumCPU()
MaxPaths == 5                 \* paths kept for Phase E
MaxFaulty == 1                \* kept paths whose copy may fail

workers == NumCPU * 2         \* copySelectedFiles: workers
JobsCap == workers * 2        \* copySelectedFiles: cap(jobs)
Workers == 1 .. workers
NoWorker == 0

\* the variables copyRepoSnapshot's steps leave alone
outside == <<pc, ctxDone, ret, lock, dateDirs, snaps, now, attempt, target,
             partialSuccess, cfg, repoDir, sys, refresh, hook, cli, key, sel, hist>>

\* the repositories: a plain one, the main work tree of a repository with
\* linked worktrees, and a linked worktree. CommonDir is <main>/.git, which
\* holds worktrees/ when there are linked worktrees; WorktreeDir is
\* <main>/.git/worktrees/<name>.
CommonDir == "common"
WorktreeDir == "worktree"
Repositories ==
    { [gitDir |-> CommonDir, commonDir |-> CommonDir, linked |-> FALSE],
      [gitDir |-> CommonDir, commonDir |-> CommonDir, linked |-> TRUE],
      [gitDir |-> WorktreeDir, commonDir |-> CommonDir, linked |-> TRUE] }

\* does the directory hold a worktrees/ subdirectory
HasWorktrees(repo, dir) == dir = CommonDir /\ repo.linked

\* resolveSnapshotGitDirs
resolveSnapshotGitDirs(repo) ==
    [gitDir |-> repo.gitDir, commonDir |-> repo.commonDir,
     isWorktree |-> repo.gitDir # repo.commonDir]

\* a mistaken source of the snapshot's .git: the work tree's own git directory
srcGit_GitDir(dirs) == dirs.gitDir

\* copyRepoSnapshot: srcGit
srcGit(dirs) == dirs.commonDir

NoGit == [present |-> FALSE, from |-> "none", worktrees |-> FALSE]
NoSnapshot == [exists |-> FALSE, partial |-> FALSE, done |-> FALSE, git |-> NoGit,
               files |-> 0]
EmptySnapshot == [NoSnapshot EXCEPT !.exists = TRUE]
OffWorker == [st |-> "off", job |-> 0, err |-> "none", tmp |-> 0]
NoResult == [CopiedFiles |-> 0, copyErrors |-> 0, firstErr |-> "none"]

\* handleBackupFlow after createUniqueSnapshotDir: the snapshot directory is
\* reserved and empty, n paths will be kept
CopyInit ==
    /\ CallsInit({<<NoDir, EmptyDisk, NoRotation, {}>>})
    /\ hook = NoHook /\ cli = NoExit /\ key = NoKey /\ sel = NoSel
    /\ \E repo \in Repositories, n \in 0 .. MaxPaths :
         copy = [st |-> "start", repo |-> repo, snap |-> EmptySnapshot, n |-> n,
                 i |-> 0, jobs |-> << >>, closed |-> FALSE,
                 w |-> [w \in Workers |-> OffWorker], mu |-> NoWorker,
                 result |-> NoResult, cancelled |-> FALSE,
                 trail |-> << >>, okJobs |-> 0, errJobs |-> 0]

\* a return of handleBackupFlow before backupSuccessful: the deferred cleanup
\* removes the snapshot directory
Fails(kind) == copy' = [copy EXCEPT !.st = kind, !.snap = NoSnapshot]

\* the cancellation token fires
CancelCopy ==
    /\ copy.st \notin {"off", "ok", "Critical", "Interrupted"}
    /\ ~copy.cancelled
    /\ copy' = [copy EXCEPT !.cancelled = TRUE]
    /\ UNCHANGED outside

\* handleBackupFlow: WriteFile(.partial)
MarkPartial ==
    /\ copy.st = "start"
    /\ \/ copy' = [copy EXCEPT !.st = "copyGit", !.snap.partial = TRUE,
                               !.trail = Append(@, "partial")]
       \/ Fails("Critical")
    /\ UNCHANGED outside

\* Phase A: resolveSnapshotGitDirs, Stat(srcGit), copyDirRecursive(srcGit, dstGit)
CopyGitDirectory ==
    /\ copy.st = "copyGit"
    /\ LET dirs == resolveSnapshotGitDirs(copy.repo)
           src == srcGit(dirs)
           git == [present |-> TRUE, from |-> src,
                   worktrees |-> HasWorktrees(copy.repo, src)]
       IN  IF copy.cancelled THEN Fails("Interrupted")
           ELSE \/ copy' = [copy EXCEPT !.st = "strip", !.snap.git = git,
                                        !.trail = Append(@, "A")]
                \/ Fails("Critical")
    /\ UNCHANGED outside

\* cleanupSnapshotWorktrees(dstGit): nothing to do without <dstGit>/worktrees,
\* else RemoveAll; a Stat or RemoveAll error ends the copy
CleanupSnapshotWorktrees ==
    /\ copy.st = "strip"
    /\ \/ copy' = [copy EXCEPT !.st = "select", !.snap.git.worktrees = FALSE,
                               !.trail = Append(@, "strip")]
       \/ copy.snap.git.worktrees /\ Fails("Critical")
    /\ UNCHANGED outside

\* Phases B-D: readDevbackIgnore, ListIgnoredUntracked (whose error ends the
\* copy), keep
SelectKeep ==
    /\ copy.st = "select"
    /\ \/ copy' = [copy EXCEPT !.st = "files",
                               !.trail = @ \o <<"B", "C", "D">>]
       \/ Fails("Critical")
    /\ UNCHANGED outside

\* copySelectedFiles: nothing to do for no path, else make the jobs channel and
\* start the workers
CopySelectedFiles ==
    /\ copy.st = "files"
    /\ IF copy.n = 0
       THEN copy' = [copy EXCEPT !.st = "after", !.trail = Append(@, "E")]
       ELSE copy' = [copy EXCEPT !.st = "check",
                                 !.w = [w \in Workers |-> [OffWorker EXCEPT !.st = "select"]]]
    /\ UNCHANGED outside

\* copySelectedFiles, the head of the loop over paths: if ctx.Err() != nil break
DispatchCheck ==
    /\ copy.st = "check"
    /\ copy' = [copy EXCEPT !.st = IF copy.i = copy.n \/ copy.cancelled
                                   THEN "close" ELSE "send"]
    /\ UNCHANGED outside

\* copySelectedFiles: jobs <- p, which waits while the channel is full
DispatchSend ==
    /\ copy.st = "send"
    /\ Len(copy.jobs) < JobsCap
    /\ copy' = [copy EXCEPT !.st = "check", !.i = @ + 1,
                            !.jobs = Append(@, copy.i + 1)]
    /\ UNCHANGED outside

\* copySelectedFiles: close(jobs)
CloseJobs ==
    /\ copy.st = "close"
    /\ copy' = [copy EXCEPT !.st = "wait", !.closed = TRUE]
    /\ UNCHANGED outside

AllExited == \A w \in Workers : copy.w[w].st = "exited"

\* a wait that does not wait
WaitWorkers_NoJoin ==
    /\ copy.st = "wait"
    /\ copy' = [copy EXCEPT !.st = "read"]
    /\ UNCHANGED outside

\* copySelectedFiles: wg.Wait()
WaitWorkers ==
    /\ copy.st = "wait"
    /\ AllExited
    /\ copy' = [copy EXCEPT !.st = "read"]
    /\ UNCHANGED outside

\* copySelectedFiles: len(state.copyErrors) > 0 is an error that wraps firstErr,
\* and handleBackupFlow makes it Interrupted or Critical
ReadCopyErrors ==
    /\ copy.st = "read"
    /\ IF copy.result.copyErrors > 0
       THEN Fails(IF copy.result.firstErr = "canceled" THEN "Interrupted"
                  ELSE "Critical")
       ELSE copy' = [copy EXCEPT !.st = "after", !.trail = Append(@, "E")]
    /\ UNCHANGED outside

\* copyRepoSnapshot after copySelectedFiles: ctx.Err() is returned
CopyRepoSnapshotReturns ==
    /\ copy.st = "after"
    /\ IF copy.cancelled THEN Fails("Interrupted")
       ELSE copy' = [copy EXCEPT !.st = "finalize"]
    /\ UNCHANGED outside

\* handleBackupFlow: RemoveAll(.partial), WriteFile(.done), backupSuccessful
MarkDone ==
    /\ copy.st = "finalize"
    /\ \/ copy' = [copy EXCEPT !.st = IF copy.cancelled THEN "Interrupted" ELSE "ok",
                               !.snap.partial = FALSE, !.snap.done = TRUE,
                               !.trail = Append(@, "Finalize")]
       \/ Fails("Critical")
    /\ UNCHANGED outside

\* copySelectedWorker: select takes <-ctx.Done()
WorkerCancelled(w) ==
    /\ copy.w[w].st = "select"
    /\ copy.cancelled
    /\ copy' = [copy EXCEPT !.w[w].st = "exited"]
    /\ UNCHANGED outside

\* copySelectedWorker: select takes a job
WorkerReceives(w) ==
    /\ copy.w[w].st = "select"
    /\ copy.jobs # << >>
    /\ copy' = [copy EXCEPT !.w[w].st = "copy", !.w[w].job = Head(copy.jobs),
                            !.jobs = Tail(@)]
    /\ UNCHANGED outside

\* copySelectedWorker: jobs is closed and empty
WorkerJobsClosed(w) ==
    /\ copy.w[w].st = "select"
    /\ copy.closed /\ copy.jobs = << >>
    /\ copy' = [copy EXCEPT !.w[w].st = "exited"]
    /\ UNCHANGED outside

\* copySelectedPath: the path is copied, or an error is returned (one that
\* wraps the context's once it is cancelled)
CopySelectedPath(w) ==
    /\ copy.w[w].st = "copy"
    /\ \/ copy' = [copy EXCEPT !.w[w].st = "lock", !.snap.files = @ + 1,
                               !.okJobs = @ + 1]
       \/ /\ copy.w[w].job <= MaxFaulty
          /\ \E err \in {"io"} \cup (IF copy.cancelled THEN {"canceled"} ELSE {}) :
               copy' = [copy EXCEPT !.w[w].st = "lock", !.w[w].err = err,
                                    !.errJobs = @ + 1]
    /\ UNCHANGED outside

\* a lock that does not wait for its holder
Lock_NoWait(w) ==
    /\ copy.w[w].st = "lock"
    /\ copy' = [copy EXCEPT !.w[w].st = "load", !.mu = w]
    /\ UNCHANGED outside

\* recordCopied, recordError: s.mu.Lock()
Lock(w) ==
    /\ copy.w[w].st = "lock"
    /\ copy.mu = NoWorker
    /\ copy' = [copy EXCEPT !.w[w].st = "load", !.mu = w]
    /\ UNCHANGED outside

\* recordCopied: the read of result.CopiedFiles++; recordError: the read of
\* copyErrors (with it SkippedFiles and the error lists)
Load(w) ==
    /\ copy.w[w].st = "load"
    /\ copy' = [copy EXCEPT !.w[w].st = "store",
                            !.w[w].tmp = IF copy.w[w].err = "none"
                                         THEN copy.result.CopiedFiles
                                         ELSE copy.result.copyErrors]
    /\ UNCHANGED outside

\* recordCopied, recordError: the write, firstErr, and the deferred Unlock
StoreUnlock(w) ==
    /\ copy.w[w].st = "store"
    /\ copy' = [copy EXCEPT
                  !.w[w] = [OffWorker EXCEPT !.st = "select"],
                  !.mu = NoWorker,
                  !.result = IF copy.w[w].err = "none"
                             THEN [@ EXCEPT !.CopiedFiles = copy.w[w].tmp + 1]
                             ELSE [@ EXCEPT !.copyErrors = copy.w[w].tmp + 1,
                                            !.firstErr = IF @ = "none"
                                                         THEN copy.w[w].err ELSE @]]
    /\ UNCHANGED outside

Driver ==
    \/ MarkPartial
    \/ CopyGitDirectory
    \/ CleanupSnapshotWorktrees
    \/ SelectKeep
    \/ CopySelectedFiles
    \/ DispatchCheck
    \/ DispatchSend
    \/ CloseJobs
    \/ WaitWorkers
    \/ ReadCopyErrors
    \/ CopyRepoSnapshotReturns
    \/ MarkDone

Worker(w) ==
    \/ WorkerCancelled(w)
    \/ WorkerReceives(w)
    \/ WorkerJobsClosed(w)
    \/ CopySelectedPath(w)
    \/ Lock(w)
    \/ Load(w)
    \/ StoreUnlock(w)

CopyNext == CancelCopy \/ Driver \/ \E w \in Workers : Worker(w)

SpecCopy == CopyInit /\ [][CopyNext]_vars

\* the goroutines of one process are scheduled: the driver and every worker
\* take a step that stays possible; the cancellation may never come
SpecCopyFair ==
    /\ SpecCopy
    /\ WF_vars(Driver)
    /\ \A w \in Workers : WF_vars(Worker(w))

\* C32: the snapshot's .git is copied from the repository's common git
\* directory, for a linked worktree too (never from the work tree's own git
\* directory), and a snapshot that carries .done holds a .git without a
\* worktrees directory.
C32_GitFromCommonDirWithoutWorktrees ==
    /\ copy.snap.git.present =>
          /\ copy.snap.git.from = CommonDir
          /\ copy.repo.gitDir # copy.repo.commonDir =>
                copy.snap.git.from # copy.repo.gitDir
    /\ copy.snap.done => (copy.snap.git.present /\ ~copy.snap.git.worktrees)

\* C32 witness: the finished snapshot of a linked worktree
C32_Witness ==
    /\ copy.st = "ok" /\ copy.snap.done
    /\ resolveSnapshotGitDirs(copy.repo).isWorktree
    /\ copy.snap.git.from = CommonDir /\ ~copy.snap.git.worktrees

WorkerRuns(w) == copy.w[w].st \notin {"off", "exited"}

\* C33: during Phase E the counters and error lists of the result are read
\* and written by a worker only while it holds the mutex, one worker at a
\* time; the driver reads them only after every worker has exited; no update
\* is lost: what the driver reads counts every path copied and every error.
C33_ResultOnlyUnderMutex ==
    /\ [][copy'.result # copy.result =>
            \E w \in Workers :
                /\ copy.mu = w /\ copy.w[w].st = "store"
                /\ copy'.w[w].st = "select"
                /\ \A v \in Workers \ {w} : copy.w[v].st \notin {"load", "store"}]_vars
    /\ [](\A w \in Workers : copy.w[w].st \in {"load", "store"} => copy.mu = w)
    /\ [](copy.st = "read" =>
            /\ \A w \in Workers : ~WorkerRuns(w)
            /\ copy.mu = NoWorker
            /\ copy.result.CopiedFiles = copy.okJobs
            /\ copy.result.copyErrors = copy.errJobs)

\* C33 witness: the driver reads the result of a Phase E in which several
\* paths were copied and one failed
C33_Witness ==
    /\ copy.st = "read"
    /\ copy.result.CopiedFiles >= 2 /\ copy.result.copyErrors >= 1

PhaseOrder == <<"partial", "A", "strip", "B", "C", "D", "E", "Finalize">>
Finished(phase) == \E i \in 1 .. Len(copy.trail) : copy.trail[i] = phase

\* C34: the phases of one Backup finish in the order A, B, C, D, E, Finalize:
\* .partial is written before anything is copied, no Phase E worker or job
\* exists before Phase A and the removal of .git/worktrees have finished, and
\* .done is written only after every Phase E worker has exited.
C34_PhasesInOrder ==
    /\ copy.trail = SubSeq(PhaseOrder, 1, Len(copy.trail))
    /\ (copy.snap.git.present \/ copy.snap.files > 0) => Finished("partial")
    /\ ((\E w \in Workers : copy.w[w].st # "off") \/ copy.jobs # << >>) =>
          (Finished("A") /\ Finished("strip") /\ Finished("D"))
    /\ (Finished("E") \/ copy.snap.done) => \A w \in Workers : ~WorkerRuns(w)
    /\ copy.snap.done => (Finished("E") /\ ~copy.snap.partial)

\* C34 witness: .done on a snapshot whose Phase E copied paths with both
\* workers gone
C34_Witness ==
    /\ copy.snap.done /\ copy.okJobs >= 2
    /\ \A w \in Workers : copy.w[w].st = "exited"

InPhaseE == copy.st \in {"check", "send", "close", "wait", "read"}

\* C35: when the cancellation token fires during Phase E, copySelectedFiles
\* returns: from every state of Phase E with the token fired, a state after
\* Phase E is reached.
C35_CancelledPhaseEReturns == (copy.cancelled /\ InPhaseE) ~> ~InPhaseE

\* the dispatcher waits to send on a full channel that no worker will read
DispatcherStuck ==
    /\ copy.st = "send" /\ Len(copy.jobs) = JobsCap
    /\ \A w \in Workers : copy.w[w].st = "exited"

====
